---- MODULE Spec2Model ----
(***************************************************************************)
(* Lot-based cost-basis accounting and tax computation of the portfolio    *)
(* tracker backend: TransactionService.calculate_cost_basis (FIFO, LIFO)   *)
(* and TaxService (realized gains, wash sales, tax-year summary,           *)
(* unrealized gains), over the single DynamoDB table both services use.    *)
(*                                                                         *)
(* Amounts and quantities are integers (the code's floats and Decimals are *)
(* exact on them).  A timestamp is a naive datetime, encoded as            *)
(* ordinal-day * TicksPerDay + time of day, with four times of day:        *)
(* 0 = 00:00:00, 1 = 12:00:00, 2 = 23:59:59, 3 = 23:59:59.5.               *)
(***************************************************************************)
EXTENDS Integers, Sequences, FiniteSets, TLC

VARIABLES
    table,   \* the DynamoDB table: partition key -> sort key -> item
    result,  \* what the latest report computation returned
    prev     \* what the report computation before it returned (same table)

vars == <<table, result, prev>>

-----------------------------------------------------------------------------
(* Bounds of the model *)

MaxTx == 3          \* transaction ids (uuids) in use per partition
TicksPerDay == 4    \* times of day a timestamp distinguishes (see above)

-----------------------------------------------------------------------------
(* datetime: calendar arithmetic as the standard library computes it *)

IsLeap(y) == (y % 4 = 0 /\ y % 100 # 0) \/ (y % 400 = 0)

DaysInMonth(y, m) ==
    IF m = 2 THEN (IF IsLeap(y) THEN 29 ELSE 28)
    ELSE IF m \in {4, 6, 9, 11} THEN 30 ELSE 31

RECURSIVE DaysBeforeMonth(_, _)
DaysBeforeMonth(y, m) ==
    IF m = 1 THEN 0 ELSE DaysBeforeMonth(y, m - 1) + DaysInMonth(y, m - 1)

DaysBeforeYear(y) ==
    LET p == y - 1 IN p * 365 + (p \div 4) - (p \div 100) + (p \div 400)

\* date(y, m, d).toordinal()
Ordinal(y, m, d) == DaysBeforeYear(y) + DaysBeforeMonth(y, m) + d

\* datetime(y, m, d, <time of day tod>)
DateTime(y, m, d, tod) == Ordinal(y, m, d) * TicksPerDay + tod

\* dt + timedelta(days=n)
PlusDays(dt, n) == dt + n * TicksPerDay

\* (a - b).days : timedelta normalises to whole days, rounding down
DaysBetween(a, b) == (a - b) \div TicksPerDay

\* dt.strftime('%Y-%m-%d') : the calendar day of the timestamp
DateOf(dt) == dt \div TicksPerDay

-----------------------------------------------------------------------------
(* The table *)

Users == {"u1"}

\* TransactionService addresses a user's partition by the bare user id,
\* TaxService and PortfolioService by 'USER#' + user id.
TransactionPK(user_id) == user_id
UserPK(user_id) == "USER#" \o user_id

PKs == {TransactionPK(u) : u \in Users} \cup {UserPK(u) : u \in Users}

TxIds == 1 .. MaxTx
AssetIds == {"a1", "a2"}

\* The order of the asset ids as sort keys
AssetOrder == [a \in AssetIds |-> IF a = "a1" THEN 1 ELSE 2]

TransactionSK(transaction_id) == <<"TRANSACTION#", transaction_id>>
AssetSK(asset_id) == <<"ASSET#", asset_id>>

SKs == {TransactionSK(i) : i \in TxIds} \cup {AssetSK(a) : a \in AssetIds}

\* Absence of an item under a key
NoItem == [entity_type |-> "none"]

EmptyPartition == [sk \in SKs |-> NoItem]
EmptyTable == [pk \in PKs |-> EmptyPartition]

NoResult == [op |-> "none"]

\* The Transaction fields the computations read, as create_transaction stores
\* them (asset_type, notes, user_id, created_at and updated_at ride along
\* unread and are left out).
TransactionItem(transaction_id, data) ==
    [entity_type      |-> "transaction",
     transaction_id   |-> transaction_id,
     asset_id         |-> data.asset_id,
     symbol           |-> data.symbol,
     transaction_type |-> data.transaction_type,
     quantity         |-> data.quantity,
     price            |-> data.price,
     total_value      |-> data.quantity * data.price,
     fees             |-> data.fees,
     transaction_date |-> data.transaction_date]

\* A TransactionCreate request body
Data(asset_id, symbol, type, quantity, price, fees, date) ==
    [asset_id |-> asset_id, symbol |-> symbol, transaction_type |-> type,
     quantity |-> quantity, price |-> price, fees |-> fees,
     transaction_date |-> date]

\* table.query(PK = pk, begins_with(SK, 'TRANSACTION#')): the items of the
\* partition in sort-key order, i.e. ordered by transaction id
RECURSIVE QueryFrom(_, _, _)
QueryFrom(t, pk, i) ==
    IF i > MaxTx THEN <<>>
    ELSE (IF t[pk][TransactionSK(i)] = NoItem THEN <<>>
          ELSE <<t[pk][TransactionSK(i)]>>) \o QueryFrom(t, pk, i + 1)

QueryTransactions(t, pk) == QueryFrom(t, pk, 1)

-----------------------------------------------------------------------------
(* Sequence helpers: list comprehensions, list.sort, sum *)

RECURSIVE Reverse(_)
Reverse(s) == IF s = <<>> THEN <<>> ELSE Reverse(Tail(s)) \o <<Head(s)>>

\* list.sort(key=transaction_date): stable, ascending
RECURSIVE InsertByDate(_, _)
InsertByDate(x, s) ==
    IF s = <<>> THEN <<x>>
    ELSE IF Head(s).transaction_date > x.transaction_date THEN <<x>> \o s
    ELSE <<Head(s)>> \o InsertByDate(x, Tail(s))

RECURSIVE SortRest(_, _)
SortRest(todo, done) ==
    IF todo = <<>> THEN done
    ELSE SortRest(Tail(todo), InsertByDate(Head(todo), done))

SortByDate(s) == SortRest(s, <<>>)

\* list.sort(key=transaction_date, reverse=True): stable, descending
RECURSIVE InsertByDateDesc(_, _)
InsertByDateDesc(x, s) ==
    IF s = <<>> THEN <<x>>
    ELSE IF Head(s).transaction_date < x.transaction_date THEN <<x>> \o s
    ELSE <<Head(s)>> \o InsertByDateDesc(x, Tail(s))

RECURSIVE SortRestDesc(_, _)
SortRestDesc(todo, done) ==
    IF todo = <<>> THEN done
    ELSE SortRestDesc(Tail(todo), InsertByDateDesc(Head(todo), done))

SortByDateDesc(s) == SortRestDesc(s, <<>>)

-----------------------------------------------------------------------------
(* TransactionService *)

CostBasisLimit == 1000

\* The loop and the sort of get_transactions over the items the query
\* returned: the transaction items of the asset, cut at limit, newest first
TransactionsFrom(items, asset_id, limit) ==
    LET kept  == SelectSeq(items, LAMBDA item :
                     item.entity_type = "transaction" /\ item.asset_id = asset_id)
        cut   == IF Len(kept) >= limit THEN SubSeq(kept, 1, limit) ELSE kept
    IN  SortByDateDesc(cut)

\* get_transactions(user_id, asset_id=asset_id, limit=limit): the partition's
\* transaction items of that asset, cut at limit, newest first
get_transactions(t, user_id, asset_id, limit) ==
    TransactionsFrom(QueryTransactions(t, TransactionPK(user_id)), asset_id, limit)

\* One lot per buy, as _calculate_fifo and _calculate_lifo create it
LotOf(buy) ==
    [date       |-> buy.transaction_date,
     quantity   |-> buy.quantity,
     price      |-> buy.price,
     total_cost |-> buy.total_value + buy.fees]

RECURSIVE LotsOf(_)
LotsOf(buys) == IF buys = <<>> THEN <<>> ELSE <<LotOf(Head(buys))>> \o LotsOf(Tail(buys))

\* The while loop of one sell: take remaining_to_sell from the front lots
RECURSIVE ConsumeLots(_, _)
ConsumeLots(lots, remaining_to_sell) ==
    IF ~(remaining_to_sell > 0 /\ lots # <<>>) THEN lots
    ELSE LET lot == Head(lots) IN
         IF lot.quantity <= remaining_to_sell
         THEN ConsumeLots(Tail(lots), remaining_to_sell - lot.quantity)
         ELSE <<[lot EXCEPT !.quantity   = lot.quantity - remaining_to_sell,
                            !.total_cost = (lot.quantity - remaining_to_sell) * lot.price]>>
              \o Tail(lots)

\* The for loop over the sells
RECURSIVE ProcessSells(_, _)
ProcessSells(lots, sells) ==
    IF sells = <<>> THEN lots
    ELSE ProcessSells(ConsumeLots(lots, Head(sells).quantity), Tail(sells))

RECURSIVE SumField(_, _)
SumField(s, f) == IF s = <<>> THEN 0 ELSE Head(s)[f] + SumField(Tail(s), f)

\* total_cost / total_quantity if total_quantity > 0 else 0, kept as a fraction
AverageCost(total_cost, total_quantity) ==
    IF total_quantity > 0 THEN [num |-> total_cost, den |-> total_quantity]
    ELSE [num |-> 0, den |-> 1]

CostBasisCalculation(asset_id, symbol, method, lots) ==
    LET total_quantity == SumField(lots, "quantity")
        total_cost     == SumField(lots, "total_cost")
    IN  [asset_id              |-> asset_id,
         symbol                |-> symbol,
         total_quantity        |-> total_quantity,
         total_cost            |-> total_cost,
         average_cost_per_unit |-> AverageCost(total_cost, total_quantity),
         method                |-> method,
         remaining_lots        |-> lots]

_calculate_fifo(asset_id, buys, sells) ==
    CostBasisCalculation(asset_id, buys[1].symbol, "fifo",
                         ProcessSells(LotsOf(buys), sells))

\* _calculate_lifo without reversed(): the lots stay oldest first
_calculate_lifo_unreversed(asset_id, buys, sells) ==
    CostBasisCalculation(asset_id, buys[1].symbol, "lifo",
                         ProcessSells(LotsOf(buys), Reverse(sells)))

_calculate_lifo(asset_id, buys, sells) ==
    CostBasisCalculation(asset_id, buys[1].symbol, "lifo",
                         ProcessSells(LotsOf(Reverse(buys)), Reverse(sells)))

\* The average taken over the units that remain instead of the units bought
_calculate_average_of_remaining(asset_id, buys, sells) ==
    LET total_quantity_bought == SumField(buys, "quantity")
        total_cost_bought     == SumField(buys, "total_value") + SumField(buys, "fees")
        total_quantity_sold   == SumField(sells, "quantity")
        total_quantity        == total_quantity_bought - total_quantity_sold
        average_cost          == AverageCost(total_cost_bought, total_quantity)
        total_cost            == [num |-> total_quantity * average_cost.num,
                                  den |-> average_cost.den]
    IN  [asset_id              |-> asset_id,
         symbol                |-> buys[1].symbol,
         total_quantity        |-> total_quantity,
         total_cost            |-> total_cost,
         average_cost_per_unit |-> average_cost,
         method                |-> "average",
         remaining_lots        |->
            IF total_quantity > 0
            THEN <<[date       |-> "average",
                    quantity   |-> total_quantity,
                    price      |-> average_cost,
                    total_cost |-> total_cost]>>
            ELSE <<>>]

\* _calculate_average: one lot at the average cost of all buys. The average
\* cost and everything multiplied by it are kept as fractions.
_calculate_average(asset_id, buys, sells) ==
    LET total_quantity_bought == SumField(buys, "quantity")
        total_cost_bought     == SumField(buys, "total_value") + SumField(buys, "fees")
        total_quantity_sold   == SumField(sells, "quantity")
        total_quantity        == total_quantity_bought - total_quantity_sold
        average_cost          == AverageCost(total_cost_bought, total_quantity_bought)
        total_cost            == [num |-> total_quantity * average_cost.num,
                                  den |-> average_cost.den]
    IN  [asset_id              |-> asset_id,
         symbol                |-> buys[1].symbol,
         total_quantity        |-> total_quantity,
         total_cost            |-> total_cost,
         average_cost_per_unit |-> average_cost,
         method                |-> "average",
         remaining_lots        |->
            IF total_quantity > 0
            THEN <<[date       |-> "average",
                    quantity   |-> total_quantity,
                    price      |-> average_cost,
                    total_cost |-> total_cost]>>
            ELSE <<>>]

\* The members of the enum CostBasisMethod
CostBasisMethod == {"fifo", "lifo", "average"}

\* calculate_cost_basis without the 'if not buys' return: buys[0] of an empty
\* list raises IndexError
calculate_cost_basis_unguarded(t, user_id, asset_id, method) ==
    LET transactions == SortByDate(get_transactions(t, user_id, asset_id, CostBasisLimit))
        buys  == SelectSeq(transactions, LAMBDA x : x.transaction_type = "buy")
        sells == SelectSeq(transactions, LAMBDA x : x.transaction_type = "sell")
    IN  IF buys = <<>> THEN [error |-> "IndexError"]
        ELSE IF method = "fifo" THEN _calculate_fifo(asset_id, buys, sells)
        ELSE IF method = "lifo" THEN _calculate_lifo(asset_id, buys, sells)
        ELSE _calculate_average(asset_id, buys, sells)

\* calculate_cost_basis from the list get_transactions returned on
CostBasisFrom(found, asset_id, method) ==
    LET transactions == SortByDate(found)
        buys  == SelectSeq(transactions, LAMBDA x : x.transaction_type = "buy")
        sells == SelectSeq(transactions, LAMBDA x : x.transaction_type = "sell")
    IN  IF buys = <<>>
        THEN [asset_id              |-> asset_id,
              symbol                |-> IF transactions # <<>> THEN transactions[1].symbol ELSE "",
              total_quantity        |-> 0,
              total_cost            |-> 0,
              average_cost_per_unit |-> [num |-> 0, den |-> 1],
              method                |-> method,
              remaining_lots        |-> <<>>]
        ELSE IF method = "fifo" THEN _calculate_fifo(asset_id, buys, sells)
        ELSE IF method = "lifo" THEN _calculate_lifo(asset_id, buys, sells)
        ELSE _calculate_average(asset_id, buys, sells)

calculate_cost_basis(t, user_id, asset_id, method) ==
    CostBasisFrom(get_transactions(t, user_id, asset_id, CostBasisLimit), asset_id, method)

-----------------------------------------------------------------------------
(* TaxService *)

WASH_SALE_WINDOW_DAYS == 30
LongTermDays == 365

BuyTypes == {"buy", "transfer_in"}
SellTypes == {"sell", "transfer_out"}

\* None for a date that is not set yet
NoDate == -1

\* _get_transactions_for_period: the items of the 'USER#' partition dated
\* within [start_date, end_date], in query order
_get_transactions_for_period(t, user_id, start_date, end_date) ==
    SelectSeq(QueryTransactions(t, UserPK(user_id)), LAMBDA item :
        start_date <= item.transaction_date /\ item.transaction_date <= end_date)

\* The buys of the 365 days up to before_date only
_get_all_buys_before_in_year(t, user_id, before_date) ==
    SortByDate(SelectSeq(QueryTransactions(t, UserPK(user_id)), LAMBDA item :
        /\ item.transaction_type \in BuyTypes
        /\ item.transaction_date <= before_date
        /\ item.transaction_date > PlusDays(before_date, -365)))

\* _get_all_buys_before: the buys and transfers in dated up to before_date,
\* sorted by date
_get_all_buys_before(t, user_id, before_date) ==
    SortByDate(SelectSeq(QueryTransactions(t, UserPK(user_id)), LAMBDA item :
        /\ item.transaction_type \in BuyTypes
        /\ item.transaction_date <= before_date))

\* d.get(field, default)
GetOr(d, field, default) ==
    IF field \in DOMAIN d THEN d[field] ELSE default

\* '' : the transaction id reported for an item that carries none
EmptyId == 0

\* buy.get('remaining_quantity', buy['quantity'])
RemainingQuantity(buy) ==
    IF "remaining_quantity" \in DOMAIN buy THEN buy.remaining_quantity ELSE buy.quantity

Min(a, b) == IF a <= b THEN a ELSE b
Abs(x) == IF x < 0 THEN -x ELSE x

\* The classification with >= in place of >
HoldingPeriod_from_365(days_held) ==
    IF days_held >= LongTermDays THEN "long_term" ELSE "short_term"

\* 'long_term' if days_held > 365 else 'short_term'
HoldingPeriod(days_held) ==
    IF days_held > LongTermDays THEN "long_term" ELSE "short_term"

\* The matching loop with the acquisition date of the last lot matched
\* instead of the earliest
RECURSIVE MatchBuys_last_date(_, _)
MatchBuys_last_date(symbol_buys, m) ==
    IF symbol_buys = <<>> \/ m.remaining_to_match <= 0 THEN m
    ELSE LET buy          == Head(symbol_buys)
             buy_quantity == RemainingQuantity(buy)
             matched      == Min(m.remaining_to_match, buy_quantity)
         IN  IF buy_quantity <= 0 THEN MatchBuys_last_date(Tail(symbol_buys), m)
             ELSE MatchBuys_last_date(Tail(symbol_buys),
                     [remaining_to_match   |-> m.remaining_to_match - matched,
                      total_cost_basis     |-> m.total_cost_basis + matched * buy.price,
                      earliest_acquisition |-> buy.transaction_date])

\* The matching loop with the acquisition date read before the check that
\* skips an exhausted buy
RECURSIVE MatchBuys_before_skip(_, _)
MatchBuys_before_skip(symbol_buys, m) ==
    IF symbol_buys = <<>> \/ m.remaining_to_match <= 0 THEN m
    ELSE LET buy          == Head(symbol_buys)
             buy_quantity == RemainingQuantity(buy)
             matched      == IF buy_quantity <= 0 THEN 0
                             ELSE Min(m.remaining_to_match, buy_quantity)
         IN  MatchBuys_before_skip(Tail(symbol_buys),
                 [remaining_to_match   |-> m.remaining_to_match - matched,
                  total_cost_basis     |-> m.total_cost_basis + matched * buy.price,
                  earliest_acquisition |->
                      IF m.earliest_acquisition = NoDate
                         \/ buy.transaction_date < m.earliest_acquisition
                      THEN buy.transaction_date ELSE m.earliest_acquisition])

\* The FIFO matching loop of _calculate_gain_for_sale over symbol_buys, from
\* the state m = (remaining_to_match, total_cost_basis, earliest_acquisition)
RECURSIVE MatchBuys(_, _)
MatchBuys(symbol_buys, m) ==
    IF symbol_buys = <<>> \/ m.remaining_to_match <= 0 THEN m
    ELSE LET buy          == Head(symbol_buys)
             buy_quantity == RemainingQuantity(buy)
             matched      == Min(m.remaining_to_match, buy_quantity)
         IN  IF buy_quantity <= 0 THEN MatchBuys(Tail(symbol_buys), m)
             ELSE MatchBuys(Tail(symbol_buys),
                     [remaining_to_match   |-> m.remaining_to_match - matched,
                      total_cost_basis     |-> m.total_cost_basis + matched * buy.price,
                      earliest_acquisition |->
                          IF m.earliest_acquisition = NoDate
                             \/ buy.transaction_date < m.earliest_acquisition
                          THEN buy.transaction_date ELSE m.earliest_acquisition])

\* matched_quantity of that loop for each of symbol_buys, in their order (0
\* for a buy the loop skips or does not reach)
RECURSIVE MatchedQuantities(_, _)
MatchedQuantities(symbol_buys, remaining_to_match) ==
    IF symbol_buys = <<>> THEN <<>>
    ELSE LET buy_quantity == RemainingQuantity(Head(symbol_buys))
             matched_quantity ==
                 IF remaining_to_match <= 0 \/ buy_quantity <= 0 THEN 0
                 ELSE Min(remaining_to_match, buy_quantity)
         IN  <<matched_quantity>>
             \o MatchedQuantities(Tail(symbol_buys), remaining_to_match - matched_quantity)

\* _calculate_gain_for_sale: <<>> for None, else the one gain record
_calculate_gain_for_sale(sell, all_buys) ==
    LET symbol_buys == SelectSeq(all_buys, LAMBDA b : b.symbol = sell.symbol)
        m == MatchBuys(symbol_buys,
                 [remaining_to_match   |-> sell.quantity,
                  total_cost_basis     |-> 0,
                  earliest_acquisition |-> NoDate])
        proceeds  == sell.quantity * sell.price
        days_held == DaysBetween(sell.transaction_date, m.earliest_acquisition)
    IN  IF symbol_buys = <<>> THEN <<>>
        ELSE IF m.earliest_acquisition = NoDate THEN <<>>
        ELSE <<[transaction_id   |-> GetOr(sell, "transaction_id", EmptyId),
                symbol           |-> sell.symbol,
                quantity         |-> sell.quantity,
                acquisition_date |-> DateOf(m.earliest_acquisition),
                sale_date        |-> DateOf(sell.transaction_date),
                proceeds         |-> proceeds,
                cost_basis       |-> m.total_cost_basis,
                gain_loss        |-> proceeds - m.total_cost_basis,
                holding_period   |-> HoldingPeriod(days_held),
                days_held        |-> days_held]>>

\* The replacement buys of one sell: same symbol, inside the window, not at
\* the sale instant
ReplacementBuys(sell, all_buys) ==
    LET window_start == PlusDays(sell.transaction_date, -WASH_SALE_WINDOW_DAYS)
        window_end   == PlusDays(sell.transaction_date, WASH_SALE_WINDOW_DAYS)
    IN  SelectSeq(all_buys, LAMBDA buy :
            /\ buy.symbol = sell.symbol
            /\ window_start <= buy.transaction_date
            /\ buy.transaction_date <= window_end
            /\ buy.transaction_date # sell.transaction_date)

RECURSIVE ReplacementPurchases(_)
ReplacementPurchases(buys) ==
    IF buys = <<>> THEN <<>>
    ELSE <<[date     |-> DateOf(Head(buys).transaction_date),
            quantity |-> Head(buys).quantity,
            price    |-> Head(buys).price]>> \o ReplacementPurchases(Tail(buys))

\* The wash-sale scan that flags every sale with a repurchase in the window,
\* whether it was sold at a loss or not
RECURSIVE _detect_wash_sales_any_sale(_, _)
_detect_wash_sales_any_sale(sells, all_buys) ==
    IF sells = <<>> THEN <<>>
    ELSE LET sell             == Head(sells)
             gain_info        == _calculate_gain_for_sale(sell, all_buys)
             replacement_buys == ReplacementBuys(sell, all_buys)
             rest             == _detect_wash_sales_any_sale(Tail(sells), all_buys)
         IN  IF gain_info = <<>> THEN rest
             ELSE IF replacement_buys = <<>> THEN rest
             ELSE <<[sell_transaction_id   |-> GetOr(sell, "transaction_id", EmptyId),
                     symbol                |-> sell.symbol,
                     sale_date             |-> DateOf(sell.transaction_date),
                     loss_amount           |-> Abs(gain_info[1].gain_loss),
                     disallowed_loss       |-> Abs(gain_info[1].gain_loss),
                     replacement_purchases |-> ReplacementPurchases(replacement_buys)]>>
                  \o rest

\* _detect_wash_sales
RECURSIVE _detect_wash_sales(_, _)
_detect_wash_sales(sells, all_buys) ==
    IF sells = <<>> THEN <<>>
    ELSE LET sell             == Head(sells)
             gain_info        == _calculate_gain_for_sale(sell, all_buys)
             replacement_buys == ReplacementBuys(sell, all_buys)
             rest             == _detect_wash_sales(Tail(sells), all_buys)
         IN  IF gain_info = <<>> \/ gain_info[1].gain_loss >= 0 THEN rest
             ELSE IF replacement_buys = <<>> THEN rest
             ELSE <<[sell_transaction_id   |-> GetOr(sell, "transaction_id", EmptyId),
                     symbol                |-> sell.symbol,
                     sale_date             |-> DateOf(sell.transaction_date),
                     loss_amount           |-> Abs(gain_info[1].gain_loss),
                     disallowed_loss       |-> Abs(gain_info[1].gain_loss),
                     replacement_purchases |-> ReplacementPurchases(replacement_buys)]>>
                  \o rest

\* The loop of get_tax_year_summary over the sells: the gains that are not None
RECURSIVE CapitalGains(_, _)
CapitalGains(sells, all_buys) ==
    IF sells = <<>> THEN <<>>
    ELSE _calculate_gain_for_sale(Head(sells), all_buys)
         \o CapitalGains(Tail(sells), all_buys)

\* The running totals with the losses added as they are, without abs()
RECURSIVE TotalOf_signed(_, _, _)
TotalOf_signed(capital_gains, holding_period, losses) ==
    IF capital_gains = <<>> THEN 0
    ELSE LET g == Head(capital_gains)
             counted == /\ g.holding_period = holding_period
                        /\ (g.gain_loss < 0) = losses
         IN  (IF counted THEN g.gain_loss ELSE 0)
             + TotalOf_signed(Tail(capital_gains), holding_period, losses)

\* The four running totals of that loop
RECURSIVE TotalOf(_, _, _)
TotalOf(capital_gains, holding_period, losses) ==
    IF capital_gains = <<>> THEN 0
    ELSE LET g == Head(capital_gains)
             counted == /\ g.holding_period = holding_period
                        /\ (g.gain_loss < 0) = losses
         IN  (IF counted THEN Abs(g.gain_loss) ELSE 0)
             + TotalOf(Tail(capital_gains), holding_period, losses)

get_tax_year_summary(t, user_id, tax_year) ==
    LET start_date   == DateTime(tax_year, 1, 1, 0)
        end_date     == DateTime(tax_year, 12, 31, 2)
        transactions == _get_transactions_for_period(t, user_id, start_date, end_date)
        buys  == SelectSeq(transactions, LAMBDA x : x.transaction_type \in BuyTypes)
        sells == SelectSeq(transactions, LAMBDA x : x.transaction_type \in SellTypes)
        all_buys      == _get_all_buys_before(t, user_id, end_date)
        capital_gains == CapitalGains(sells, all_buys)
        total_short_term_gain == TotalOf(capital_gains, "short_term", FALSE)
        total_short_term_loss == TotalOf(capital_gains, "short_term", TRUE)
        total_long_term_gain  == TotalOf(capital_gains, "long_term", FALSE)
        total_long_term_loss  == TotalOf(capital_gains, "long_term", TRUE)
        wash_sales            == _detect_wash_sales(sells, all_buys)
        wash_sale_disallowed  == SumField(wash_sales, "disallowed_loss")
        net_short_term == total_short_term_gain - total_short_term_loss
        net_long_term  == total_long_term_gain - total_long_term_loss
    IN  [tax_year |-> tax_year,
         summary  |->
            [total_proceeds   |-> SumField(sells, "total_value"),
             total_cost_basis |-> SumField(capital_gains, "cost_basis"),
             short_term |-> [gains  |-> total_short_term_gain,
                             losses |-> total_short_term_loss,
                             net    |-> net_short_term],
             long_term  |-> [gains  |-> total_long_term_gain,
                             losses |-> total_long_term_loss,
                             net    |-> net_long_term],
             total_net_gain_loss    |-> net_short_term + net_long_term,
             wash_sale_disallowed   |-> wash_sale_disallowed,
             adjusted_net_gain_loss |-> net_short_term + net_long_term + wash_sale_disallowed],
         capital_gains |-> capital_gains,
         wash_sales    |-> wash_sales,
         transaction_count |-> [buys  |-> Len(buys),
                                sells |-> Len(sells),
                                total |-> Len(transactions)]]

\* The inner loop of generate_form_8949: disallowed_loss of the first wash sale
\* whose sell_transaction_id equals the gain's transaction id, else 0
WashAdjustment(wash_sales, gain) ==
    LET hits == SelectSeq(wash_sales, LAMBDA ws :
                    ws.sell_transaction_id = GetOr(gain, "transaction_id", EmptyId))
    IN  IF hits = <<>> THEN 0 ELSE hits[1].disallowed_loss

\* One entry of the form (asset_type rides along from the sell and is left out)
Form8949Entry(gain, wash_adjustment) ==
    [description       |-> <<gain.quantity, gain.symbol>>,
     date_acquired     |-> gain.acquisition_date,
     date_sold         |-> gain.sale_date,
     proceeds          |-> gain.proceeds,
     cost_basis        |-> gain.cost_basis,
     adjustment_code   |-> IF wash_adjustment > 0 THEN "W" ELSE "",
     adjustment_amount |-> wash_adjustment,
     gain_or_loss      |-> gain.gain_loss + wash_adjustment,
     holding_period    |-> gain.holding_period,
     symbol            |-> gain.symbol]

\* form_8949_entries.sort(key=date_sold): stable, ascending
RECURSIVE InsertByDateSold(_, _)
InsertByDateSold(x, s) ==
    IF s = <<>> THEN <<x>>
    ELSE IF Head(s).date_sold > x.date_sold THEN <<x>> \o s
    ELSE <<Head(s)>> \o InsertByDateSold(x, Tail(s))

RECURSIVE SortRestByDateSold(_, _)
SortRestByDateSold(todo, done) ==
    IF todo = <<>> THEN done
    ELSE SortRestByDateSold(Tail(todo), InsertByDateSold(Head(todo), done))

SortByDateSold(s) == SortRestByDateSold(s, <<>>)

generate_form_8949(t, user_id, tax_year) ==
    LET summary == get_tax_year_summary(t, user_id, tax_year)
        form_8949_entries ==
            [k \in 1 .. Len(summary.capital_gains) |->
                Form8949Entry(summary.capital_gains[k],
                              WashAdjustment(summary.wash_sales, summary.capital_gains[k]))]
    IN  SortByDateSold(form_8949_entries)

\* _get_current_holdings: the 'ASSET#' items of the 'USER#' partition, in
\* sort-key order
RECURSIVE HoldingsFrom(_, _, _)
HoldingsFrom(t, pk, todo) ==
    IF todo = {} THEN <<>>
    ELSE LET a == CHOOSE x \in todo : \A y \in todo : x = y \/ AssetOrder[x] < AssetOrder[y]
         IN  (IF t[pk][AssetSK(a)] = NoItem THEN <<>> ELSE <<t[pk][AssetSK(a)]>>)
             \o HoldingsFrom(t, pk, todo \ {a})

_get_current_holdings(t, user_id) == HoldingsFrom(t, UserPK(user_id), AssetIds)

\* _get_holding_cost_basis: cost of every buy of the asset dated up to now
_get_holding_cost_basis(t, user_id, asset_id, now) ==
    LET all_buys   == _get_all_buys_before(t, user_id, now)
        asset_buys == SelectSeq(all_buys, LAMBDA b : b.asset_id = asset_id)
        Cost[k \in 0 .. Len(asset_buys)] ==
            IF k = 0 THEN 0
            ELSE Cost[k - 1] + asset_buys[k].quantity * asset_buys[k].price
                 + asset_buys[k].fees
    IN  Cost[Len(asset_buys)]

\* One entry of get_unrealized_gains
UnrealizedEntry(t, user_id, holding, as_of_date, now) ==
    LET cost_basis    == _get_holding_cost_basis(t, user_id, holding.asset_id, now)
        current_value == GetOr(holding, "current_value", 0)
        unrealized    == current_value - cost_basis
        acquisition_date == GetOr(holding, "first_purchase_date", NoDate)
    IN  [symbol               |-> holding.symbol,
         quantity             |-> holding.quantity,
         cost_basis           |-> cost_basis,
         current_value        |-> current_value,
         unrealized_gain_loss |-> unrealized,
         gain_loss_percentage |-> IF cost_basis > 0
                                  THEN [num |-> unrealized * 100, den |-> cost_basis]
                                  ELSE [num |-> 0, den |-> 1],
         holding_period       |-> IF acquisition_date # NoDate
                                  THEN HoldingPeriod(DaysBetween(as_of_date, acquisition_date))
                                  ELSE "unknown"]

\* get_unrealized_gains(user_id) at the instant now (as_of_date = utcnow())
get_unrealized_gains(t, user_id, now) ==
    LET holdings == _get_current_holdings(t, user_id)
        unrealized_gains ==
            [k \in 1 .. Len(holdings) |->
                UnrealizedEntry(t, user_id, holdings[k], now, now)]
    IN  [as_of_date                 |-> now,
         total_unrealized_gain_loss |-> SumField(unrealized_gains, "unrealized_gain_loss"),
         holdings                   |-> unrealized_gains]

\* The check with no window: any buy of the symbol up to as_of_date
_check_wash_sale_risk_any_buy(t, user_id, symbol, as_of_date) ==
    \E buy \in {_get_all_buys_before(t, user_id, as_of_date)[k] :
                   k \in 1 .. Len(_get_all_buys_before(t, user_id, as_of_date))} :
        buy.symbol = symbol

\* _check_wash_sale_risk: a buy of the symbol dated from window_start up to
\* as_of_date
_check_wash_sale_risk(t, user_id, symbol, as_of_date) ==
    LET window_start == PlusDays(as_of_date, -WASH_SALE_WINDOW_DAYS)
        all_buys     == _get_all_buys_before(t, user_id, as_of_date)
    IN  \E k \in 1 .. Len(all_buys) :
            /\ all_buys[k].symbol = symbol
            /\ all_buys[k].transaction_date >= window_start

\* One entry of get_tax_loss_harvesting_opportunities
Opportunity(t, user_id, holding, now) ==
    [symbol          |-> holding.symbol,
     unrealized_loss |-> Abs(holding.unrealized_gain_loss),
     quantity        |-> holding.quantity,
     current_value   |-> holding.current_value,
     cost_basis      |-> holding.cost_basis,
     potential_tax_savings_estimate |->
         [num |-> Abs(holding.unrealized_gain_loss) * 25, den |-> 100],
     wash_sale_risk  |-> _check_wash_sale_risk(t, user_id, holding.symbol, now),
     holding_period  |-> holding.holding_period]

\* opportunities.sort(key=unrealized_loss, reverse=True): stable, largest first
RECURSIVE InsertByLoss(_, _)
InsertByLoss(x, sorted) ==
    IF sorted = <<>> THEN <<x>>
    ELSE IF Head(sorted).unrealized_loss >= x.unrealized_loss
         THEN <<Head(sorted)>> \o InsertByLoss(x, Tail(sorted))
         ELSE <<x>> \o sorted

RECURSIVE SortByLoss(_)
SortByLoss(seq) ==
    IF seq = <<>> THEN <<>>
    ELSE InsertByLoss(seq[Len(seq)], SortByLoss(SubSeq(seq, 1, Len(seq) - 1)))

\* get_tax_loss_harvesting_opportunities(user_id) at the instant now
get_tax_loss_harvesting_opportunities(t, user_id, now) ==
    LET unrealized == get_unrealized_gains(t, user_id, now)
        losing     == SelectSeq(unrealized.holdings,
                                LAMBDA holding : holding.unrealized_gain_loss < 0)
        opportunities ==
            [k \in 1 .. Len(losing) |-> Opportunity(t, user_id, losing[k], now)]
    IN  SortByLoss(opportunities)

-----------------------------------------------------------------------------
(* Actions *)

\* TransactionService.create_transaction: a fresh uuid, one put_item
CreateTransaction(user_id, data) ==
    /\ \E transaction_id \in TxIds :
          /\ table[TransactionPK(user_id)][TransactionSK(transaction_id)] = NoItem
          /\ table' = [table EXCEPT ![TransactionPK(user_id)][TransactionSK(transaction_id)] =
                                        TransactionItem(transaction_id, data)]
    /\ result' = NoResult
    /\ prev' = NoResult

\* str(ValueError) of CostBasisMethod(method_str) for a string that is no
\* member of the enum: "'<method_str>' is not a valid CostBasisMethod", as the
\* words it is made of
InvalidMethodError(method_str) == <<method_str, "is not a valid", "CostBasisMethod">>

\* GET cost basis: CostBasisMethod(method_str), then
\* TransactionService.calculate_cost_basis; a ValueError becomes a 400
CalculateCostBasis(user_id, asset_id, method_str) ==
    /\ result' = IF method_str \in CostBasisMethod
                 THEN [op     |-> "cost_basis",
                       args   |-> <<user_id, asset_id, method_str>>,
                       value  |-> calculate_cost_basis(table, user_id, asset_id, method_str)]
                 ELSE [op         |-> "bad_request",
                       args       |-> <<user_id, asset_id, method_str>>,
                       statusCode |-> 400,
                       error      |-> InvalidMethodError(method_str)]
    /\ prev' = result
    /\ UNCHANGED table

\* GET unrealized gains: TaxService.get_unrealized_gains at the instant now
GetUnrealizedGains(user_id, now) ==
    /\ result' = [op    |-> "unrealized_gains",
                  args  |-> <<user_id, now>>,
                  value |-> get_unrealized_gains(table, user_id, now)]
    /\ prev' = result
    /\ UNCHANGED table

\* GET harvesting: TaxService.get_tax_loss_harvesting_opportunities and the
\* total the handler adds
GetTaxLossHarvesting(user_id, now) ==
    /\ result' = [op    |-> "harvesting",
                  args  |-> <<user_id, now>>,
                  value |-> [opportunities |->
                                 get_tax_loss_harvesting_opportunities(table, user_id, now),
                             total_potential_loss |->
                                 SumField(get_tax_loss_harvesting_opportunities(
                                              table, user_id, now), "unrealized_loss")]]
    /\ prev' = result
    /\ UNCHANGED table

\* TransactionService.get_transaction: the item under (user_id,
\* TRANSACTION#transaction_id), NoItem for None
get_transaction(t, user_id, transaction_id) ==
    LET item == t[TransactionPK(user_id)][TransactionSK(transaction_id)]
    IN  IF item = NoItem \/ item.entity_type # "transaction" THEN NoItem ELSE item

\* The item after update_item(updates): the fields update_data carries, and
\* total_value recalculated from the new or the existing quantity and price
Updated(existing, update_data) ==
    LET quantity == GetOr(update_data, "quantity", existing.quantity)
        price    == GetOr(update_data, "price", existing.price)
    IN  [field \in DOMAIN existing |->
            IF field = "total_value" THEN quantity * price
            ELSE IF field \in DOMAIN update_data THEN update_data[field]
            ELSE existing[field]]

\* PUT /transactions/{id}: TransactionService.update_transaction; 404 when the
\* transaction is not found
UpdateTransaction(user_id, transaction_id, update_data) ==
    LET existing == get_transaction(table, user_id, transaction_id)
    IN  /\ table' = IF existing = NoItem THEN table
                    ELSE [table EXCEPT ![TransactionPK(user_id)][TransactionSK(transaction_id)] =
                                           Updated(existing, update_data)]
        /\ result' = IF existing = NoItem
                     THEN [op |-> "not_found", args |-> <<user_id, transaction_id>>,
                           statusCode |-> 404]
                     ELSE [op |-> "updated", args |-> <<user_id, transaction_id>>,
                           value |-> Updated(existing, update_data)]
        /\ prev' = result

\* DELETE /transactions/{id}: TransactionService.delete_transaction; 404 when
\* the transaction is not found
DeleteTransaction(user_id, transaction_id) ==
    LET existing == get_transaction(table, user_id, transaction_id)
    IN  /\ table' = IF existing = NoItem THEN table
                    ELSE [table EXCEPT ![TransactionPK(user_id)][TransactionSK(transaction_id)] =
                                           NoItem]
        /\ result' = IF existing = NoItem
                     THEN [op |-> "not_found", args |-> <<user_id, transaction_id>>,
                           statusCode |-> 404]
                     ELSE [op |-> "deleted", args |-> <<user_id, transaction_id>>]
        /\ prev' = result

\* The summary that also writes the lots it matched back to the store: every
\* buy of a symbol sold in the year is left with remaining_quantity 0
Consumed(item) ==
    [f \in DOMAIN item \cup {"remaining_quantity"} |->
        IF f = "remaining_quantity" THEN 0 ELSE item[f]]

GetTaxYearSummary_consuming(user_id, tax_year) ==
    LET pk   == UserPK(user_id)
        sold == {x.symbol : x \in {y \in {table[pk][sk] : sk \in SKs} :
                     /\ y # NoItem
                     /\ y.transaction_type \in SellTypes
                     /\ y.transaction_date >= DateTime(tax_year, 1, 1, 0)
                     /\ y.transaction_date <= DateTime(tax_year, 12, 31, 2)}}
    IN  /\ result' = [op    |-> "tax_summary",
                      args  |-> <<user_id, tax_year>>,
                      value |-> get_tax_year_summary(table, user_id, tax_year)]
        /\ prev' = result
        /\ table' = [table EXCEPT ![pk] = [sk \in SKs |->
                        IF /\ table[pk][sk] # NoItem
                           /\ table[pk][sk].transaction_type \in BuyTypes
                           /\ table[pk][sk].symbol \in sold
                        THEN Consumed(table[pk][sk]) ELSE table[pk][sk]]]

\* GET tax summary: TaxService.get_tax_year_summary
GetTaxYearSummary(user_id, tax_year) ==
    /\ result' = [op    |-> "tax_summary",
                  args  |-> <<user_id, tax_year>>,
                  value |-> get_tax_year_summary(table, user_id, tax_year)]
    /\ prev' = result
    /\ UNCHANGED table

\* GET form 8949: TaxService.generate_form_8949
GenerateForm8949(user_id, tax_year) ==
    /\ result' = [op    |-> "form_8949",
                  args  |-> <<user_id, tax_year>>,
                  value |-> generate_form_8949(table, user_id, tax_year)]
    /\ prev' = result
    /\ UNCHANGED table

-----------------------------------------------------------------------------
(* SpecLedger: one user records trades and asks for the cost basis *)

Day1  == DateTime(2024, 1, 1, 0)
Day3  == DateTime(2024, 1, 3, 0)
Day5  == DateTime(2024, 1, 5, 0)
Day10 == DateTime(2024, 1, 10, 0)

LedgerPool ==
    { Data("a1", "XYZ", "buy",  10, 1, 0, Day1),
      Data("a1", "XYZ", "buy",  10, 2, 0, Day5),
      Data("a1", "XYZ", "buy",  10, 2, 3, Day5),
      Data("a1", "XYZ", "sell", 12, 3, 0, Day10),
      Data("a1", "XYZ", "sell", 10, 3, 0, Day10),
      Data("a1", "XYZ", "sell",  2, 3, 0, Day3),
      Data("a2", "ABC", "buy",   1, 5, 0, Day1) }

Methods == {"fifo", "lifo"}

InitLedger ==
    /\ table = EmptyTable
    /\ result = NoResult
    /\ prev = NoResult

NextLedger ==
    \/ \E u \in Users, data \in LedgerPool : CreateTransaction(u, data)
    \/ \E u \in Users, a \in AssetIds, m \in Methods : CalculateCostBasis(u, a, m)

SpecLedger == InitLedger /\ [][NextLedger]_vars

-----------------------------------------------------------------------------
(* Ledgers the store may hold under the key TaxService reads *)

NoData == [transaction_type |-> "none"]

\* The partition that holds data f[i] under transaction id i
PartitionOf(f) ==
    [sk \in SKs |->
        IF \E i \in TxIds : sk = TransactionSK(i) /\ f[i] # NoData
        THEN LET i == CHOOSE j \in TxIds : sk = TransactionSK(j)
             IN  TransactionItem(i, f[i])
        ELSE NoItem]

\* Every table whose 'USER#' partition of u1 holds up to MaxTx transactions of
\* the pool, under any ids, and nothing else
TaxLedgers(pool) ==
    { [EmptyTable EXCEPT ![UserPK("u1")] = PartitionOf(f)] :
        f \in [TxIds -> pool \cup {NoData}] }

\* The same, with the same transactions also stored under the key
\* TransactionService reads
MirroredLedgers(pool) ==
    { [EmptyTable EXCEPT ![UserPK("u1")] = PartitionOf(f),
                         ![TransactionPK("u1")] = PartitionOf(f)] :
        f \in [TxIds -> pool \cup {NoData}] }

-----------------------------------------------------------------------------
(* SpecScenario: the worked example of the tax summary *)

ScenarioPool ==
    { Data("a1", "XYZ", "buy",  5, 10, 0, DateTime(2024, 1, 1, 0)),
      Data("a1", "XYZ", "buy",  5, 20, 0, DateTime(2024, 6, 1, 0)),
      Data("a1", "XYZ", "sell", 6, 30, 0, DateTime(2025, 2, 1, 0)),
      Data("a1", "XYZ", "buy",  5, 10, 0, DateTime(2025, 1, 15, 0)),
      Data("a2", "ABC", "buy",  1, 50, 0, DateTime(2024, 3, 1, 0)),
      Data("a2", "ABC", "sell", 1, 40, 0, DateTime(2025, 3, 1, 0)) }

ScenarioYears == {2024, 2025}

InitScenario ==
    /\ table \in TaxLedgers(ScenarioPool)
    /\ result = NoResult
    /\ prev = NoResult

NextScenario ==
    \E u \in Users, y \in ScenarioYears : GetTaxYearSummary(u, y)

SpecScenario == InitScenario /\ [][NextScenario]_vars

-----------------------------------------------------------------------------
(* SpecTax: tax summaries over ledgers with losses, repurchases, unmatched
   and over-matched sells *)

TaxPool ==
    { Data("a1", "XYZ", "buy",  2, 10, 0, DateTime(2025, 1, 1, 0)),
      Data("a1", "XYZ", "sell", 1,  5, 0, DateTime(2025, 4, 10, 0)),
      Data("a1", "XYZ", "buy",  1,  5, 0, DateTime(2025, 4, 25, 0)),
      Data("a1", "XYZ", "buy",  1,  5, 0, DateTime(2025, 5, 20, 0)),
      Data("a1", "XYZ", "sell", 1,  5, 0, DateTime(2025, 12, 20, 0)),
      Data("a1", "XYZ", "buy",  1,  5, 0, DateTime(2026, 1, 5, 0)),
      Data("a1", "XYZ", "sell", 4, 30, 0, DateTime(2025, 6, 1, 0)),
      Data("a2", "ABC", "sell", 1,  5, 0, DateTime(2025, 5, 1, 0)) }

TaxYears == {2025, 2026}

InitTax ==
    /\ table \in TaxLedgers(TaxPool)
    /\ result = NoResult
    /\ prev = NoResult

NextTax ==
    \E u \in Users, y \in TaxYears : GetTaxYearSummary(u, y)

SpecTax == InitTax /\ [][NextTax]_vars

-----------------------------------------------------------------------------
(* SpecRoundTrip: cost basis and tax summary over the same trades *)

RoundTripPool ==
    { Data("a1", "XYZ", "buy",  1, 1, 0, DateTime(2025, 1, 1, 0)),
      Data("a1", "XYZ", "buy",  1, 2, 0, DateTime(2025, 2, 1, 0)),
      Data("a1", "XYZ", "buy",  2, 1, 1, DateTime(2025, 1, 15, 0)),
      Data("a1", "XYZ", "sell", 1, 3, 0, DateTime(2025, 3, 1, 0)),
      Data("a1", "XYZ", "sell", 1, 3, 0, DateTime(2025, 4, 1, 0)) }

InitRoundTrip ==
    /\ table \in MirroredLedgers(RoundTripPool)
    /\ result = NoResult
    /\ prev = NoResult

NextRoundTrip ==
    \/ \E u \in Users : GetTaxYearSummary(u, 2025)
    \/ \E u \in Users, m \in Methods : CalculateCostBasis(u, "a1", m)

SpecRoundTrip == InitRoundTrip /\ [][NextRoundTrip]_vars

-----------------------------------------------------------------------------
(* SpecHolding: sales and open positions around the one-year boundary *)

Acquired     == DateTime(2024, 1, 1, 0)
AcquiredNoon == DateTime(2024, 1, 1, 1)
After365     == DateTime(2024, 12, 31, 0)
After366     == DateTime(2025, 1, 1, 0)

HoldingPool ==
    { Data("a1", "XYZ", "buy",  1, 10, 0, Acquired),
      Data("a1", "XYZ", "buy",  1, 10, 0, AcquiredNoon),
      Data("a1", "XYZ", "sell", 1, 20, 0, After365),
      Data("a1", "XYZ", "sell", 1, 20, 0, After366) }

\* The asset item as PortfolioService.add_asset stores it
AssetItem(asset_id, symbol, quantity, purchase_date) ==
    [entity_type   |-> "asset",
     asset_id      |-> asset_id,
     symbol        |-> symbol,
     quantity      |-> quantity,
     purchase_date |-> purchase_date]

\* An asset item that also carries the two fields get_unrealized_gains reads
ValuedAssetItem(asset_id, symbol, quantity, purchase_date, current_value) ==
    [entity_type         |-> "asset",
     asset_id            |-> asset_id,
     symbol              |-> symbol,
     quantity            |-> quantity,
     purchase_date       |-> purchase_date,
     first_purchase_date |-> purchase_date,
     current_value       |-> current_value]

HoldingItems ==
    { NoItem,
      AssetItem("a1", "XYZ", 1, Acquired),
      ValuedAssetItem("a1", "XYZ", 1, Acquired, 20),
      ValuedAssetItem("a1", "XYZ", 1, AcquiredNoon, 20) }

HoldingYears == {2024, 2025}
HoldingNows == {After365, After366}

InitHolding ==
    /\ \E t \in TaxLedgers(HoldingPool), h \in HoldingItems :
          table = [t EXCEPT ![UserPK("u1")][AssetSK("a1")] = h]
    /\ result = NoResult
    /\ prev = NoResult

NextHolding ==
    \/ \E u \in Users, y \in HoldingYears : GetTaxYearSummary(u, y)
    \/ \E u \in Users, now \in HoldingNows : GetUnrealizedGains(u, now)

SpecHolding == InitHolding /\ [][NextHolding]_vars

-----------------------------------------------------------------------------
(* SpecIngest: requests as they arrive, malformed ones included; nothing is
   ever stored under the key TaxService reads *)

IngestPool ==
    { Data("a1", "XYZ", "buy",   2, 10,  0, Day1),
      Data("a1", "XYZ", "buy",  -2, 10,  0, Day3),
      Data("a1", "XYZ", "sell",  1, -5,  0, Day5),
      Data("a1", "XYZ", "buy",   1, 10, -3, Day5),
      Data("a1", "XYZ", "sell",  1, 20,  0, Day10) }

\* The method query parameter, lower-cased: the enum's values and one other
MethodStrings == CostBasisMethod \cup {"hifo"}

IngestYears == {2024}

InitIngest ==
    /\ table = EmptyTable
    /\ result = NoResult
    /\ prev = NoResult

NextIngest ==
    \/ \E u \in Users, data \in IngestPool : CreateTransaction(u, data)
    \/ \E u \in Users, m \in MethodStrings : CalculateCostBasis(u, "a1", m)
    \/ \E u \in Users, y \in IngestYears : GetTaxYearSummary(u, y)

SpecIngest == InitIngest /\ [][NextIngest]_vars

-----------------------------------------------------------------------------
(* SpecForm: Form 8949 over ledgers whose items carry a transaction_id field,
   and over the same ledgers without it *)

FormPool ==
    { Data("a1", "XYZ", "buy",  2, 10, 0, DateTime(2025, 3, 25, 0)),
      Data("a1", "XYZ", "sell", 1,  5, 0, DateTime(2025, 4, 10, 0)),
      Data("a1", "XYZ", "sell", 1, 30, 0, DateTime(2025, 6, 1, 0)),
      Data("a1", "XYZ", "sell", 1,  4, 0, DateTime(2025, 4, 12, 0)),
      Data("a2", "ABC", "buy",  1,  5, 0, DateTime(2025, 1, 1, 0)) }

\* The item without its transaction_id field
WithoutId(item) ==
    IF item = NoItem THEN NoItem
    ELSE [f \in DOMAIN item \ {"transaction_id"} |-> item[f]]

\* The table whose 'USER#' items carry no transaction_id field
WithoutIds(t) ==
    [t EXCEPT ![UserPK("u1")] = [sk \in SKs |-> WithoutId(t[UserPK("u1")][sk])]]

FormYears == {2025}

InitForm ==
    /\ \E t \in TaxLedgers(FormPool) : table \in {t, WithoutIds(t)}
    /\ result = NoResult
    /\ prev = NoResult

NextForm ==
    \E u \in Users, y \in FormYears : GenerateForm8949(u, y)

SpecForm == InitForm /\ [][NextForm]_vars

-----------------------------------------------------------------------------
(* SpecTransfer: trades and transfers of one asset, read by both services,
   under every cost-basis method *)

TransferPool ==
    { Data("a1", "XYZ", "buy",          2, 10, 0, DateTime(2025, 1, 1, 0)),
      Data("a1", "XYZ", "buy",          1, 20, 2, DateTime(2025, 2, 1, 0)),
      Data("a1", "XYZ", "transfer_in",  2, 20, 0, DateTime(2025, 2, 1, 0)),
      Data("a1", "XYZ", "sell",         1, 30, 0, DateTime(2025, 3, 1, 0)),
      Data("a1", "XYZ", "sell",         3, 30, 0, DateTime(2025, 5, 1, 0)),
      Data("a1", "XYZ", "transfer_out", 1, 30, 0, DateTime(2025, 4, 1, 0)) }

TransferYears == {2025}

InitTransfer ==
    /\ table \in MirroredLedgers(TransferPool)
    /\ result = NoResult
    /\ prev = NoResult

NextTransfer ==
    \/ \E u \in Users, m \in CostBasisMethod : CalculateCostBasis(u, "a1", m)
    \/ \E u \in Users, y \in TransferYears : GetTaxYearSummary(u, y)

SpecTransfer == InitTransfer /\ [][NextTransfer]_vars

-----------------------------------------------------------------------------
(* What a ledger holds, stated on the table itself *)

\* The stored transaction items of a partition
StoredIn(t, pk) == {i \in TxIds : t[pk][TransactionSK(i)] # NoItem}

RECURSIVE SumQuantity(_, _, _)
SumQuantity(t, pk, ids) ==
    IF ids = {} THEN 0
    ELSE LET i == CHOOSE j \in ids : TRUE
         IN  t[pk][TransactionSK(i)].quantity + SumQuantity(t, pk, ids \ {i})

RECURSIVE SumCost(_, _, _)
SumCost(t, pk, ids) ==
    IF ids = {} THEN 0
    ELSE LET i == CHOOSE j \in ids : TRUE
         IN  t[pk][TransactionSK(i)].quantity * t[pk][TransactionSK(i)].price
             + t[pk][TransactionSK(i)].fees + SumCost(t, pk, ids \ {i})

\* The asset's stored transactions of one type in partition pk
IdsOf(t, pk, asset_id, type) ==
    {i \in StoredIn(t, pk) :
        /\ t[pk][TransactionSK(i)].asset_id = asset_id
        /\ t[pk][TransactionSK(i)].transaction_type = type}

\* Total quantity of the asset's transactions of one type in partition pk
QuantityOf(t, pk, asset_id, type) == SumQuantity(t, pk, IdsOf(t, pk, asset_id, type))

\* Total cost (quantity * price + fees) of the asset's buys in partition pk
BuyCostOf(t, pk, asset_id) == SumCost(t, pk, IdsOf(t, pk, asset_id, "buy"))

\* The request bodies the asset's stored transactions came from
DataOf(item) ==
    Data(item.asset_id, item.symbol, item.transaction_type, item.quantity,
         item.price, item.fees, item.transaction_date)

\* The asset's transactions in partition pk are exactly the given ones, once each
HoldsExactly(t, pk, asset_id, datas) ==
    LET ids == {i \in StoredIn(t, pk) : t[pk][TransactionSK(i)].asset_id = asset_id}
    IN  /\ Cardinality(ids) = Cardinality(datas)
        /\ {DataOf(t[pk][TransactionSK(i)]) : i \in ids} = datas

IsCostBasis(r) == r.op = "cost_basis"

-----------------------------------------------------------------------------
(* C1: conservation of quantity under FIFO and LIFO *)

\* C1: after calculate_cost_basis replays an asset's buys and sells with FIFO
\* or LIFO, total_quantity equals the sum of the buy quantities minus the sum
\* of the sell quantities.
C1_Conservation ==
    IsCostBasis(result) =>
        LET pk == TransactionPK(result.args[1])
            a  == result.args[2]
        IN  result.value.total_quantity =
                QuantityOf(table, pk, a, "buy") - QuantityOf(table, pk, a, "sell")

-----------------------------------------------------------------------------
(* C3: FIFO takes the oldest lots, LIFO the newest *)

\* The asset's buys of partition pk, oldest first (ties in id order)
BuysOldestFirst(t, pk, asset_id) ==
    SortByDate(SelectSeq(QueryTransactions(t, pk), LAMBDA x :
                   x.asset_id = asset_id /\ x.transaction_type = "buy"))

\* lots is what is left of the lots of `buys` after units were taken from the
\* front: the first k lots are gone, lot k+1 may be reduced, the rest is whole
LeftAfterFront(lots, buys) ==
    \E k \in 0 .. Len(buys) :
        /\ Len(lots) = Len(buys) - k
        /\ \A j \in 1 .. Len(lots) :
              /\ lots[j].date = buys[k + j].transaction_date
              /\ lots[j].price = buys[k + j].price
              /\ lots[j].quantity > 0
              /\ lots[j].quantity <= buys[k + j].quantity
              /\ j > 1 => lots[j].quantity = buys[k + j].quantity

\* The fee-free buys 10 @ $1 (day 1), 10 @ $2 (day 5) and the sell of 12 (day 10)
C3_Scenario ==
    { Data("a1", "XYZ", "buy",  10, 1, 0, Day1),
      Data("a1", "XYZ", "buy",  10, 2, 0, Day5),
      Data("a1", "XYZ", "sell", 12, 3, 0, Day10) }

C3_InScenario ==
    /\ IsCostBasis(result)
    /\ result.args[2] = "a1"
    /\ HoldsExactly(table, TransactionPK(result.args[1]), "a1", C3_Scenario)

\* C3: FIFO consumes lots oldest-first and LIFO newest-first, spilling into the
\* next lot; for 10 @ $1 (day 1), 10 @ $2 (day 5), sell 12 (day 10) the cost
\* removed is 14 under FIFO (8 @ $2 remain) and 22 under LIFO (8 @ $1 remain).
C3_FifoLifoOrder ==
    IsCostBasis(result) =>
        LET pk   == TransactionPK(result.args[1])
            a    == result.args[2]
            m    == result.args[3]
            v    == result.value
            buys == BuysOldestFirst(table, pk, a)
            sold == QuantityOf(table, pk, a, "sell")
            had  == QuantityOf(table, pk, a, "buy")
            removed == BuyCostOf(table, pk, a) - v.total_cost
        IN  /\ m = "fifo" => LeftAfterFront(v.remaining_lots, buys)
            /\ m = "lifo" => LeftAfterFront(v.remaining_lots, Reverse(buys))
            /\ v.total_quantity = (IF sold >= had THEN 0 ELSE had - sold)
            /\ (C3_InScenario /\ m = "fifo") =>
                  /\ removed = 14
                  /\ Len(v.remaining_lots) = 1
                  /\ v.remaining_lots[1].quantity = 8
                  /\ v.remaining_lots[1].price = 2
                  /\ v.remaining_lots[1].date = Day5
            /\ (C3_InScenario /\ m = "lifo") =>
                  /\ removed = 22
                  /\ Len(v.remaining_lots) = 1
                  /\ v.remaining_lots[1].quantity = 8
                  /\ v.remaining_lots[1].price = 1
                  /\ v.remaining_lots[1].date = Day1

\* Both methods have answered for the scenario, one after the other
C3_Witness ==
    /\ C3_InScenario
    /\ IsCostBasis(prev)
    /\ prev.args[2] = "a1"
    /\ result.args[3] = "lifo"
    /\ prev.args[3] = "fifo"
    /\ result.value.total_cost = 8
    /\ prev.value.total_cost = 16

-----------------------------------------------------------------------------
(* C8: selling more than was ever bought *)

\* More units of the asset are sold than bought in partition pk
Oversold(t, pk, asset_id) ==
    QuantityOf(t, pk, asset_id, "sell") > QuantityOf(t, pk, asset_id, "buy")

\* The tables that hold a part of the user's transactions and nothing else
SubLedgers(t, user_id) ==
    LET pk == TransactionPK(user_id) IN
    { [t EXCEPT ![pk] = [sk \in SKs |->
                            IF \E i \in keep : sk = TransactionSK(i)
                            THEN t[pk][sk] ELSE NoItem]] :
        keep \in SUBSET StoredIn(t, pk) }

\* C8: when the sells of an asset exceed its lots, calculate_cost_basis (FIFO
\* or LIFO) returns a best-effort result from which the caller can tell that
\* less was consumed than requested: no ledger of the same trades without the
\* excess yields the same result.
C8_OversoldDetectable ==
    (IsCostBasis(result)
        /\ Oversold(table, TransactionPK(result.args[1]), result.args[2])) =>
        \A alt \in SubLedgers(table, result.args[1]) :
            ~Oversold(alt, TransactionPK(result.args[1]), result.args[2]) =>
                calculate_cost_basis(alt, result.args[1], result.args[2], result.args[3])
                    # result.value

-----------------------------------------------------------------------------
(* What a tax summary is about *)

IsTaxSummary(r) == r.op = "tax_summary"

\* The partition TaxService reads for the user of result r
TaxPartition(r) == UserPK(r.args[1])

\* The symbol's transactions in partition pk are exactly the given ones, once each
HoldsExactlySymbol(t, pk, symbol, datas) ==
    LET ids == {i \in StoredIn(t, pk) : t[pk][TransactionSK(i)].symbol = symbol}
    IN  /\ Cardinality(ids) = Cardinality(datas)
        /\ {DataOf(t[pk][TransactionSK(i)]) : i \in ids} = datas

\* The entries of a list of records
Entries(seq) == {seq[k] : k \in 1 .. Len(seq)}

\* The stored sells (and transfers out) of partition pk dated in year y
SellsOfYear(t, pk, y) ==
    {i \in StoredIn(t, pk) :
        /\ t[pk][TransactionSK(i)].transaction_type \in {"sell", "transfer_out"}
        /\ t[pk][TransactionSK(i)].transaction_date >= DateTime(y, 1, 1, 0)
        /\ t[pk][TransactionSK(i)].transaction_date <= DateTime(y, 12, 31, 2)}

-----------------------------------------------------------------------------
(* C2: the worked example *)

C2_Trades ==
    { Data("a1", "XYZ", "buy",  5, 10, 0, DateTime(2024, 1, 1, 0)),
      Data("a1", "XYZ", "buy",  5, 20, 0, DateTime(2024, 6, 1, 0)),
      Data("a1", "XYZ", "sell", 6, 30, 0, DateTime(2025, 2, 1, 0)) }

C2_InScenario ==
    /\ IsTaxSummary(result)
    /\ result.args[2] = 2025
    /\ HoldsExactlySymbol(table, TaxPartition(result), "XYZ", C2_Trades)

\* C2: with buys 5 @ $10 on 2024-01-01 and 5 @ $20 on 2024-06-01 and one sell
\* 6 @ $30 on 2025-02-01, the 2025 summary reports for that sell cost_basis 70,
\* proceeds 180, gain_loss 110, days_held 397 from 2024-01-01, long_term.
C2_WorkedExample ==
    C2_InScenario =>
        LET gains == {g \in Entries(result.value.capital_gains) : g.symbol = "XYZ"}
        IN  /\ Cardinality(gains) = 1
            /\ \A g \in gains :
                  /\ g.cost_basis = 70
                  /\ g.proceeds = 180
                  /\ g.gain_loss = 110
                  /\ g.days_held = 397
                  /\ g.acquisition_date = Ordinal(2024, 1, 1)
                  /\ g.sale_date = Ordinal(2025, 2, 1)
                  /\ g.holding_period = "long_term"

C2_Witness ==
    /\ C2_InScenario
    /\ Len(result.value.capital_gains) = 1
    /\ result.value.summary.long_term.gains = 110

-----------------------------------------------------------------------------
(* C4: wash sales *)

\* The ledger holds a buy of the sell's symbol within 30 days before or after
\* the sale, other than at the sale instant
RepurchasedAround(t, pk, sell) ==
    \E j \in StoredIn(t, pk) :
        LET buy == t[pk][TransactionSK(j)] IN
        /\ buy.transaction_type \in {"buy", "transfer_in"}
        /\ buy.symbol = sell.symbol
        /\ buy.transaction_date >= sell.transaction_date - 30 * TicksPerDay
        /\ buy.transaction_date <= sell.transaction_date + 30 * TicksPerDay
        /\ buy.transaction_date # sell.transaction_date

\* C4: a sell of the tax year realized at a loss is flagged in wash_sales if
\* and only if the ledger holds a buy of the same symbol within 30 days before
\* or after the sale (not at the sale instant); the flag disallows the whole
\* loss; a sell with gain_loss >= 0 is never flagged.
C4_WashSaleFlags ==
    IsTaxSummary(result) =>
        LET pk == TaxPartition(result) IN
        \A i \in SellsOfYear(table, pk, result.args[2]) :
            LET sell  == table[pk][TransactionSK(i)]
                flags == {w \in Entries(result.value.wash_sales) :
                             w.sell_transaction_id = i}
            IN  \A g \in Entries(result.value.capital_gains) :
                    g.transaction_id = i =>
                        /\ g.gain_loss >= 0 => flags = {}
                        /\ g.gain_loss < 0 =>
                              /\ (flags # {}) = RepurchasedAround(table, pk, sell)
                              /\ \A w \in flags : w.disallowed_loss = -g.gain_loss

-----------------------------------------------------------------------------
(* C7, C10: sells that cannot be matched *)

\* The units of the sell's symbol bought up to the end of year y
BoughtUpTo(t, pk, symbol, y) ==
    SumQuantity(t, pk, {j \in StoredIn(t, pk) :
        /\ t[pk][TransactionSK(j)].transaction_type \in {"buy", "transfer_in"}
        /\ t[pk][TransactionSK(j)].symbol = symbol
        /\ t[pk][TransactionSK(j)].transaction_date <= DateTime(y, 12, 31, 2)})

\* Lot matching finds no lots for the sell, or fewer units than it sells
Unmatchable(t, pk, sell, y) == BoughtUpTo(t, pk, sell.symbol, y) < sell.quantity

\* An entry that reports its sell as unresolvable
IsUnresolvable(entry) == "unresolvable" \in DOMAIN entry

\* C7: a sell for which lot matching finds no lots, or fewer units than it
\* sells, is reported as a distinct unresolvable result: it is not dropped from
\* the output and it is not given a gain as if it were fully matched.
C7_UnmatchedReported ==
    IsTaxSummary(result) =>
        LET pk == TaxPartition(result) IN
        \A i \in SellsOfYear(table, pk, result.args[2]) :
            Unmatchable(table, pk, table[pk][TransactionSK(i)], result.args[2]) =>
                /\ \E g \in Entries(result.value.capital_gains) : g.transaction_id = i
                /\ \A g \in Entries(result.value.capital_gains) :
                      g.transaction_id = i => IsUnresolvable(g)

\* C10: one unmatchable sell does not abort the summary: every other sell of
\* the year appears in capital_gains, and the result tallies the sells that
\* succeeded and those that failed, which add up to the sells of the year.
C10_TalliesReported ==
    IsTaxSummary(result) =>
        LET pk    == TaxPartition(result)
            y     == result.args[2]
            count == result.value.transaction_count
        IN  /\ \A i \in SellsOfYear(table, pk, y) :
                  ~Unmatchable(table, pk, table[pk][TransactionSK(i)], y) =>
                      \E g \in Entries(result.value.capital_gains) : g.transaction_id = i
            /\ {"succeeded", "failed"} \subseteq DOMAIN count
            /\ count.succeeded + count.failed = Cardinality(SellsOfYear(table, pk, y))

-----------------------------------------------------------------------------
(* C9: the summary is a function of the store and leaves it alone *)

-----------------------------------------------------------------------------
(* C6: round trip between the open lots and the realized cost basis *)

RECURSIVE SumCostBasis(_, _)
SumCostBasis(gains, symbol) ==
    IF gains = <<>> THEN 0
    ELSE (IF Head(gains).symbol = symbol THEN Head(gains).cost_basis ELSE 0)
         + SumCostBasis(Tail(gains), symbol)

\* C6: for one symbol replayed with FIFO, total_cost of the open lots equals
\* the cost of all buys (quantity * price + fees) minus the cost_basis of the
\* realized gains reported for all of the symbol's sells.
C6_RoundTrip ==
    (/\ IsCostBasis(result)
     /\ result.args[3] = "fifo"
     /\ IsTaxSummary(prev)
     /\ table[TransactionPK(result.args[1])] = table[UserPK(result.args[1])]
     /\ \A i \in StoredIn(table, UserPK(result.args[1])) :
           table[UserPK(result.args[1])][TransactionSK(i)].transaction_type = "sell"
               => i \in SellsOfYear(table, UserPK(result.args[1]), prev.args[2]))
    => result.value.total_cost =
           BuyCostOf(table, TransactionPK(result.args[1]), result.args[2])
           - SumCostBasis(prev.value.capital_gains, result.value.symbol)

-----------------------------------------------------------------------------
(* C5: the one-year boundary *)

IsUnrealized(r) == r.op = "unrealized_gains"

\* The oldest buy of the symbol dated up to the end of year y
OldestBuyDate(t, pk, symbol, y) ==
    LET dates == {t[pk][TransactionSK(j)].transaction_date : j \in
                    {k \in StoredIn(t, pk) :
                        /\ t[pk][TransactionSK(k)].transaction_type = "buy"
                        /\ t[pk][TransactionSK(k)].symbol = symbol
                        /\ t[pk][TransactionSK(k)].transaction_date <= DateTime(y, 12, 31, 2)}}
    IN  CHOOSE d \in dates : \A e \in dates : d <= e

\* More than 365 whole days lie between the two instants
MoreThanAYear(from, to) == to - from >= 366 * TicksPerDay

-----------------------------------------------------------------------------
(* C11: the adjusted net gain *)

\* The sum of gain_loss over the gains of one holding period, the gains
\* (gain_loss >= 0) or the losses (gain_loss < 0, as positive amounts)
GainsOf(capital_gains, holding_period) ==
    SumField(SelectSeq(capital_gains, LAMBDA g :
                 g.holding_period = holding_period /\ g.gain_loss >= 0), "gain_loss")

LossesOf(capital_gains, holding_period) ==
    -SumField(SelectSeq(capital_gains, LAMBDA g :
                  g.holding_period = holding_period /\ g.gain_loss < 0), "gain_loss")

\* C11: in every summary adjusted_net_gain_loss = short_term.net +
\* long_term.net + wash_sale_disallowed, each net is the gains minus the losses
\* of its holding period, and wash_sale_disallowed is the non-negative sum of
\* disallowed_loss over the returned wash_sales.
C11_AdjustedNet ==
    IsTaxSummary(result) =>
        LET v == result.value
            s == v.summary
        IN  /\ s.short_term.gains  = GainsOf(v.capital_gains, "short_term")
            /\ s.short_term.losses = LossesOf(v.capital_gains, "short_term")
            /\ s.long_term.gains   = GainsOf(v.capital_gains, "long_term")
            /\ s.long_term.losses  = LossesOf(v.capital_gains, "long_term")
            /\ s.short_term.net = s.short_term.gains - s.short_term.losses
            /\ s.long_term.net  = s.long_term.gains - s.long_term.losses
            /\ s.wash_sale_disallowed = SumField(v.wash_sales, "disallowed_loss")
            /\ s.wash_sale_disallowed >= 0
            /\ s.adjusted_net_gain_loss =
                  s.short_term.net + s.long_term.net + s.wash_sale_disallowed

\* A summary with a loss, all of it disallowed as a wash sale
C11_Witness ==
    /\ IsTaxSummary(result)
    /\ result.value.summary.short_term.losses > 0
    /\ result.value.summary.wash_sale_disallowed > 0
    /\ result.value.summary.adjusted_net_gain_loss = 0

-----------------------------------------------------------------------------
(* C13: the year's sells against the whole buy history *)

\* The symbol's buys (and transfers in) of partition pk dated up to the end of
\* year y, oldest first
BuysUpTo(t, pk, symbol, y) ==
    SortByDate(SelectSeq(QueryTransactions(t, pk), LAMBDA x :
        /\ x.transaction_type \in {"buy", "transfer_in"}
        /\ x.symbol = symbol
        /\ x.transaction_date <= DateTime(y, 12, 31, 2)))

\* The cost of q units taken from the front of the buys at their unit prices
RECURSIVE FrontCost(_, _)
FrontCost(buys, q) ==
    IF buys = <<>> \/ q <= 0 THEN 0
    ELSE IF Head(buys).quantity >= q THEN q * Head(buys).price
    ELSE Head(buys).quantity * Head(buys).price
         + FrontCost(Tail(buys), q - Head(buys).quantity)

\* C13: the summary of year Y has realized gains only for sells dated within
\* Y, and each sell of Y is matched against the symbol's buys of the whole
\* history up to the end of Y: a sell whose lots were all bought in earlier
\* years gets its gain, with the cost basis of those lots.
C13_WholeHistory ==
    IsTaxSummary(result) =>
        LET pk == TaxPartition(result)
            y  == result.args[2]
        IN  /\ \A g \in Entries(result.value.capital_gains) :
                  g.transaction_id \in SellsOfYear(table, pk, y)
            /\ \A i \in SellsOfYear(table, pk, y) :
                  LET sell == table[pk][TransactionSK(i)]
                      buys == BuysUpTo(table, pk, sell.symbol, y)
                      gains == {g \in Entries(result.value.capital_gains) :
                                   g.transaction_id = i}
                  IN  buys # <<>> =>
                         /\ Cardinality(gains) = 1
                         /\ \A g \in gains :
                               /\ g.cost_basis = FrontCost(buys, sell.quantity)
                               /\ g.acquisition_date = DateOf(buys[1].transaction_date)

\* A sell of 2025 got its cost basis from lots bought in 2024 only
C13_Witness ==
    /\ IsTaxSummary(result)
    /\ result.args[2] = 2025
    /\ \E g \in Entries(result.value.capital_gains) :
          /\ g.cost_basis > 0
          /\ g.acquisition_date < Ordinal(2025, 1, 1)
          /\ \A j \in StoredIn(table, TaxPartition(result)) :
                LET x == table[TaxPartition(result)][TransactionSK(j)] IN
                (x.transaction_type = "buy" /\ x.symbol = g.symbol)
                    => x.transaction_date < DateTime(2025, 1, 1, 0)

-----------------------------------------------------------------------------
(* C12: Form 8949 *)

IsForm8949(r) == r.op = "form_8949"

\* What the form shows of one entry
Shown(entry) ==
    <<entry.date_sold, entry.proceeds, entry.cost_basis,
      entry.adjustment_code, entry.adjustment_amount>>

\* The same for the year's sell stored under id i, as far as it is realized:
\* 'W' and the disallowed loss if that very sell is a wash sale, else '' and 0
ShownFor(t, user_id, y, i) ==
    LET sell     == t[UserPK(user_id)][TransactionSK(i)]
        all_buys == _get_all_buys_before(t, user_id, DateTime(y, 12, 31, 2))
        gain     == _calculate_gain_for_sale(sell, all_buys)
        flag     == _detect_wash_sales(<<sell>>, all_buys)
    IN  <<DateOf(sell.transaction_date), gain[1].proceeds, gain[1].cost_basis,
          IF flag # <<>> THEN "W" ELSE "",
          IF flag # <<>> THEN flag[1].disallowed_loss ELSE 0>>

\* The year's sells for which a gain is realized
RealizedSells(t, user_id, y) ==
    {i \in SellsOfYear(t, UserPK(user_id), y) :
        _calculate_gain_for_sale(t[UserPK(user_id)][TransactionSK(i)],
            _get_all_buys_before(t, user_id, DateTime(y, 12, 31, 2))) # <<>>}

\* C12: generate_form_8949 emits exactly one entry per realized sale of the
\* year; an entry carries adjustment_code 'W' and the disallowed loss as
\* adjustment_amount if and only if that very sell is flagged as a wash sale,
\* every other entry has adjustment_code '' and adjustment_amount 0, also when
\* the stored sells carry no transaction id.
C12_Form8949 ==
    IsForm8949(result) =>
        LET u       == result.args[1]
            y       == result.args[2]
            entries == result.value
            sells   == RealizedSells(table, u, y)
            shown   == {Shown(entries[k]) : k \in 1 .. Len(entries)}
                       \cup {ShownFor(table, u, y, i) : i \in sells}
        IN  /\ Len(entries) = Cardinality(sells)
            /\ \A p \in shown :
                  Cardinality({k \in 1 .. Len(entries) : Shown(entries[k]) = p})
                      = Cardinality({i \in sells : ShownFor(table, u, y, i) = p})

-----------------------------------------------------------------------------
(* C14: no data *)

\* The response reports an exception instead of a value
HasRaised(value) == "error" \in DOMAIN value

\* C14: with an empty transaction history neither operation raises:
\* get_tax_year_summary returns all totals 0 and empty capital_gains and
\* wash_sales, and calculate_cost_basis returns total_quantity 0, total_cost 0,
\* average_cost_per_unit 0 and no remaining lots, for every method.
C14_NoData ==
    /\ (IsTaxSummary(result) /\ StoredIn(table, TaxPartition(result)) = {}) =>
          LET v == result.value
              s == v.summary
          IN  /\ ~HasRaised(v)
              /\ v.capital_gains = <<>>
              /\ v.wash_sales = <<>>
              /\ s.total_proceeds = 0
              /\ s.total_cost_basis = 0
              /\ s.short_term = [gains |-> 0, losses |-> 0, net |-> 0]
              /\ s.long_term = [gains |-> 0, losses |-> 0, net |-> 0]
              /\ s.total_net_gain_loss = 0
              /\ s.wash_sale_disallowed = 0
              /\ s.adjusted_net_gain_loss = 0
              /\ v.transaction_count = [buys |-> 0, sells |-> 0, total |-> 0]
    /\ (IsCostBasis(result)
            /\ StoredIn(table, TransactionPK(result.args[1])) = {}) =>
          LET v == result.value
          IN  /\ ~HasRaised(v)
              /\ v.total_quantity = 0
              /\ v.total_cost = 0
              /\ v.average_cost_per_unit.num = 0
              /\ v.remaining_lots = <<>>
              /\ v.method = result.args[3]

\* Both operations have answered over the empty store, the average method
\* among them
C14_Witness ==
    /\ table = EmptyTable
    /\ IsTaxSummary(result)
    /\ result.value.capital_gains = <<>>
    /\ IsCostBasis(prev)
    /\ prev.args[3] = "average"
    /\ prev.value.total_quantity = 0

-----------------------------------------------------------------------------
(* C15: unsupported cost-basis methods *)

\* The response to a cost-basis request
IsCostBasisResponse(r) == r.op \in {"cost_basis", "bad_request"}

\* C15: a cost-basis request with a method other than FIFO, LIFO or AVERAGE
\* fails before any matching is done, with an error that names the supported
\* methods; it is never computed as if it were one of the three.
C15_InvalidMethod ==
    (IsCostBasisResponse(result) /\ result.args[3] \notin CostBasisMethod) =>
        /\ result.op = "bad_request"
        /\ \A m \in CostBasisMethod : m \in Entries(result.error)

-----------------------------------------------------------------------------
(* C16: malformed transactions *)

\* C16: a transaction with a negative quantity, price or fees is rejected
\* when it is created, so the store never holds one.
C16_MalformedRejected ==
    \A u \in Users : \A i \in StoredIn(table, TransactionPK(u)) :
        LET item == table[TransactionPK(u)][TransactionSK(i)]
        IN  item.quantity >= 0 /\ item.price >= 0 /\ item.fees >= 0

-----------------------------------------------------------------------------
(* C17: a lot is consumed once *)

\* The units the summary of year y matches against the k-th of the symbol's
\* buys, summed over the given sells of the symbol
RECURSIVE MatchedAgainst(_, _, _, _, _)
MatchedAgainst(t, pk, symbol_buys, k, ids) ==
    IF ids = {} THEN 0
    ELSE LET i == CHOOSE j \in ids : TRUE
         IN  MatchedQuantities(symbol_buys, t[pk][TransactionSK(i)].quantity)[k]
             + MatchedAgainst(t, pk, symbol_buys, k, ids \ {i})

\* C17: across the sells of one symbol in a tax-year computation the total
\* quantity matched against any single buy never exceeds that buy's quantity.
C17_LotConsumedOnce ==
    IsTaxSummary(result) =>
        LET pk == TaxPartition(result)
            y  == result.args[2]
        IN  \A i \in SellsOfYear(table, pk, y) :
                LET symbol      == table[pk][TransactionSK(i)].symbol
                    symbol_buys == BuysUpTo(table, pk, symbol, y)
                    sells       == {j \in SellsOfYear(table, pk, y) :
                                       table[pk][TransactionSK(j)].symbol = symbol}
                IN  \A k \in 1 .. Len(symbol_buys) :
                        MatchedAgainst(table, pk, symbol_buys, k, sells)
                            <= symbol_buys[k].quantity

-----------------------------------------------------------------------------
(* C18: lots are acquired before they are sold *)

\* C18: every realized gain has days_held >= 0, and a sell of the year that
\* has no buy of its symbol dated at or before it gets no gain, even if the
\* symbol is bought later in the year.
C18_AcquiredBeforeSold ==
    IsTaxSummary(result) =>
        LET pk == TaxPartition(result)
            y  == result.args[2]
        IN  /\ \A g \in Entries(result.value.capital_gains) : g.days_held >= 0
            /\ \A i \in SellsOfYear(table, pk, y) :
                  LET sell == table[pk][TransactionSK(i)] IN
                  (\A j \in StoredIn(table, pk) :
                      LET buy == table[pk][TransactionSK(j)] IN
                      (buy.transaction_type \in {"buy", "transfer_in"}
                          /\ buy.symbol = sell.symbol)
                      => buy.transaction_date > sell.transaction_date)
                  => \A g \in Entries(result.value.capital_gains) :
                         g.transaction_id # i

-----------------------------------------------------------------------------
(* C19: LIFO as a chronological replay *)

\* The asset's buys and sells of partition pk in chronological order
Chronological(t, pk, asset_id) ==
    SortByDate(SelectSeq(QueryTransactions(t, pk), LAMBDA x :
                   x.asset_id = asset_id /\ x.transaction_type \in {"buy", "sell"}))

\* The lots, newest first, after q units were taken from the newest
RECURSIVE TakeNewest(_, _)
TakeNewest(lots, q) ==
    IF q <= 0 \/ lots = <<>> THEN lots
    ELSE IF Head(lots).quantity <= q THEN TakeNewest(Tail(lots), q - Head(lots).quantity)
    ELSE <<[Head(lots) EXCEPT !.quantity   = Head(lots).quantity - q,
                              !.total_cost = (Head(lots).quantity - q) * Head(lots).price]>>
         \o Tail(lots)

\* The lots, newest first, after the transactions were replayed in order
RECURSIVE Replay(_, _)
Replay(transactions, lots) ==
    IF transactions = <<>> THEN lots
    ELSE LET x == Head(transactions) IN
         IF x.transaction_type = "buy"
         THEN Replay(Tail(transactions),
                     <<[date       |-> x.transaction_date,
                        quantity   |-> x.quantity,
                        price      |-> x.price,
                        total_cost |-> x.quantity * x.price + x.fees]>> \o lots)
         ELSE Replay(Tail(transactions), TakeNewest(lots, x.quantity))

\* C19: the LIFO inventory returned by calculate_cost_basis equals the
\* inventory left by replaying the asset's transactions chronologically, each
\* sell consuming the most recently acquired lots that exist at its time.
C19_LifoReplay ==
    (IsCostBasis(result) /\ result.args[3] = "lifo") =>
        result.value.remaining_lots =
            Replay(Chronological(table, TransactionPK(result.args[1]), result.args[2]),
                   <<>>)

-----------------------------------------------------------------------------
(* C20: acquisition fees in the realized cost basis *)

\* C20: a sell that takes q units from a buy of quantity Q, unit price p and
\* fee f adds q * (p + f / Q) to cost_basis; stated for a symbol with one buy
\* that covers the sell, and multiplied by Q.
C20_FeesProRata ==
    IsTaxSummary(result) =>
        LET pk == TaxPartition(result)
            y  == result.args[2]
        IN  \A g \in Entries(result.value.capital_gains) :
                LET buys == BuysUpTo(table, pk, g.symbol, y) IN
                (Len(buys) = 1 /\ g.quantity <= buys[1].quantity) =>
                    g.cost_basis * buys[1].quantity =
                        g.quantity * (buys[1].price * buys[1].quantity + buys[1].fees)

-----------------------------------------------------------------------------
(* C21: the order in which the store returns the transactions *)

\* Every ordering of a list
Orderings(s) ==
    {[k \in 1 .. Len(s) |-> s[p[k]]] : p \in Permutations(1 .. Len(s))}

\* C21: the result of lot matching does not depend on the order in which the
\* store returns the transactions: for every ordering of the stored
\* transaction set cost basis and remaining lots are the same, also when two
\* buys share a timestamp.
C21_OrderIndependent ==
    IsCostBasis(result) =>
        \A items \in Orderings(QueryTransactions(table, TransactionPK(result.args[1]))) :
            CostBasisFrom(TransactionsFrom(items, result.args[2], CostBasisLimit),
                          result.args[2], result.args[3]) = result.value

-----------------------------------------------------------------------------
(* C22: transfers as buys and sells *)

\* The item with a transfer in read as a buy and a transfer out as a sell
AsTrade(item) ==
    IF item = NoItem THEN NoItem
    ELSE [item EXCEPT !.transaction_type =
             IF @ = "transfer_in" THEN "buy"
             ELSE IF @ = "transfer_out" THEN "sell" ELSE @]

\* The table with every transfer read as a trade
AsTrades(t) == [pk \in PKs |-> [sk \in SKs |-> AsTrade(t[pk][sk])]]

\* C22: for lot purposes a transfer_in creates a lot exactly as a buy does and
\* a transfer_out consumes lots exactly as a sell does, in calculate_cost_basis
\* and in the tax-year computation: both return what they return for the same
\* ledger with the transfers recorded as buys and sells.
C22_TransfersAsTrades ==
    /\ IsCostBasis(result) =>
          result.value = calculate_cost_basis(AsTrades(table), result.args[1],
                                              result.args[2], result.args[3])
    /\ IsTaxSummary(result) =>
          result.value = get_tax_year_summary(AsTrades(table), result.args[1],
                                              result.args[2])

-----------------------------------------------------------------------------
(* C24: the average method *)

\* The table without the sells of partition pk
WithoutSells(t, pk) ==
    [t EXCEPT ![pk] = [sk \in SKs |->
        IF t[pk][sk] # NoItem /\ t[pk][sk].entity_type = "transaction"
           /\ t[pk][sk].transaction_type = "sell"
        THEN NoItem ELSE t[pk][sk]]]

\* C24: under AVERAGE average_cost_per_unit is the cost of all buys (quantity
\* * price + fee) over the quantity of all buys, whatever the sells; when buys
\* minus sells is positive the result holds exactly one lot dated 'average'
\* with that quantity and total_cost = quantity * average, else no lot.
C24_Average ==
    (/\ IsCostBasis(result)
     /\ result.args[3] = "average"
     /\ QuantityOf(table, TransactionPK(result.args[1]), result.args[2], "buy") > 0) =>
        LET pk     == TransactionPK(result.args[1])
            a      == result.args[2]
            v      == result.value
            avg    == v.average_cost_per_unit
            bought == QuantityOf(table, pk, a, "buy")
            left   == bought - QuantityOf(table, pk, a, "sell")
        IN  /\ avg.den > 0
            /\ avg.num * bought = BuyCostOf(table, pk, a) * avg.den
            /\ avg = calculate_cost_basis(WithoutSells(table, pk), result.args[1],
                                          a, "average").average_cost_per_unit
            /\ left > 0 =>
                  /\ Len(v.remaining_lots) = 1
                  /\ v.remaining_lots[1].date = "average"
                  /\ v.remaining_lots[1].quantity = left
                  /\ v.remaining_lots[1].total_cost.num * avg.den
                        = left * avg.num * v.remaining_lots[1].total_cost.den
            /\ left <= 0 => v.remaining_lots = <<>>

\* An average over two buys, one of them with a fee, after a sell: 3 units
\* bought for 42, 2 units left
C24_Witness ==
    /\ IsCostBasis(result)
    /\ result.args[3] = "average"
    /\ result.value.average_cost_per_unit = [num |-> 42, den |-> 3]
    /\ Len(result.value.remaining_lots) = 1
    /\ result.value.remaining_lots[1].quantity = 2

-----------------------------------------------------------------------------
(* C23: the cost basis of what is still held *)

\* The cost of the asset's lots that remain open in partition pk after its
\* buys and sells dated up to now are replayed, oldest lots sold first
OpenCost(t, pk, asset_id, now) ==
    LET dated == SortByDate(SelectSeq(QueryTransactions(t, pk), LAMBDA x :
                     x.asset_id = asset_id /\ x.transaction_date <= now))
        buys  == SelectSeq(dated, LAMBDA x : x.transaction_type \in {"buy", "transfer_in"})
        sells == SelectSeq(dated, LAMBDA x : x.transaction_type \in {"sell", "transfer_out"})
    IN  SumField(ProcessSells(LotsOf(buys), sells), "total_cost")

\* C23: get_unrealized_gains reports for each holding unrealized_gain_loss =
\* current value - cost basis of the lots that remain open after all buys and
\* sells of the asset are replayed; the cost of units already sold is not part
\* of the cost basis.
C23_OpenLotsOnly ==
    IsUnrealized(result) =>
        LET u        == result.args[1]
            now      == result.args[2]
            holdings == _get_current_holdings(table, u)
        IN  /\ Len(result.value.holdings) = Len(holdings)
            /\ \A k \in 1 .. Len(holdings) :
                  LET entry == result.value.holdings[k] IN
                  /\ entry.cost_basis = OpenCost(table, UserPK(u), holdings[k].asset_id, now)
                  /\ entry.unrealized_gain_loss = entry.current_value - entry.cost_basis

-----------------------------------------------------------------------------
(* C25: the quantities of the remaining lots *)

\* C25: in every FIFO or LIFO result each remaining lot has 0 < quantity <=
\* the quantity of the buy it was created from; a lot whose quantity reaches 0
\* is removed, so when the sells take exactly what was bought the inventory is
\* empty with total_quantity 0.
C25_LotQuantities ==
    (IsCostBasis(result) /\ result.args[3] \in {"fifo", "lifo"}) =>
        LET pk   == TransactionPK(result.args[1])
            a    == result.args[2]
            v    == result.value
            buys == BuysOldestFirst(table, pk, a)
        IN  /\ \A lot \in Entries(v.remaining_lots) :
                  /\ lot.quantity > 0
                  /\ \E b \in Entries(buys) :
                        /\ b.transaction_date = lot.date
                        /\ b.price = lot.price
                        /\ lot.quantity <= b.quantity
            /\ QuantityOf(table, pk, a, "sell") = QuantityOf(table, pk, a, "buy") =>
                  /\ v.remaining_lots = <<>>
                  /\ v.total_quantity = 0

-----------------------------------------------------------------------------
(* SpecMatch: tax summaries over ledgers with an empty buy, buys the match
   consumes and buys it never reaches *)

MatchPool ==
    { Data("a1", "XYZ", "buy",  0,  5, 0, DateTime(2024, 1, 1, 0)),
      Data("a1", "XYZ", "buy",  1, 10, 0, DateTime(2024, 6, 1, 0)),
      Data("a1", "XYZ", "buy",  2, 20, 0, DateTime(2025, 1, 10, 0)),
      Data("a1", "XYZ", "buy",  1, 30, 0, DateTime(2025, 2, 1, 0)),
      Data("a1", "XYZ", "sell", 2, 25, 0, DateTime(2025, 3, 1, 0)),
      Data("a1", "XYZ", "sell", 1, 25, 0, DateTime(2025, 4, 1, 0)) }

MatchYears == {2025}

InitMatch ==
    /\ table \in TaxLedgers(MatchPool)
    /\ result = NoResult
    /\ prev = NoResult

NextMatch ==
    \E u \in Users, y \in MatchYears : GetTaxYearSummary(u, y)

SpecMatch == InitMatch /\ [][NextMatch]_vars

-----------------------------------------------------------------------------
(* C26: the acquisition date of a sale matched against several buys *)

\* The buys of the sale's symbol that the summary of the year matches, in the
\* order it matches them
SymbolBuysOf(t, user_id, tax_year, sell) ==
    SelectSeq(_get_all_buys_before(t, user_id, DateTime(tax_year, 12, 31, 2)),
              LAMBDA b : b.symbol = sell.symbol)

\* The dates of the buys from which the match of the sale takes a positive
\* quantity
TakenDates(symbol_buys, sell) ==
    LET matched == MatchedQuantities(symbol_buys, sell.quantity)
    IN  { symbol_buys[k].transaction_date :
            k \in { j \in 1 .. Len(symbol_buys) : matched[j] > 0 } }

Earliest(dates) == CHOOSE d \in dates : \A e \in dates : d <= e

\* C26: the realized gain reported for a sale takes acquisition_date and
\* days_held from the earliest buy among those from which a positive quantity
\* was taken, never from a buy the match skipped or did not reach.
C26_EarliestTaken ==
    IsTaxSummary(result) =>
        LET u == result.args[1]
            y == result.args[2]
        IN  \A gain \in Entries(result.value.capital_gains) :
                \A i \in SellsOfYear(table, UserPK(u), y) :
                    i = gain.transaction_id =>
                        LET sell  == table[UserPK(u)][TransactionSK(i)]
                            taken == TakenDates(SymbolBuysOf(table, u, y, sell), sell)
                        IN  /\ taken # {}
                            /\ gain.acquisition_date = DateOf(Earliest(taken))
                            /\ gain.days_held =
                                   DaysBetween(sell.transaction_date, Earliest(taken))

\* A sale matched against two buys of different dates
C26_Witness ==
    /\ IsTaxSummary(result)
    /\ \E gain \in Entries(result.value.capital_gains) :
          \E i \in SellsOfYear(table, UserPK(result.args[1]), result.args[2]) :
              LET sell == table[UserPK(result.args[1])][TransactionSK(i)]
              IN  /\ i = gain.transaction_id
                  /\ Cardinality(TakenDates(SymbolBuysOf(table, result.args[1],
                                                result.args[2], sell), sell)) >= 2

-----------------------------------------------------------------------------
(* SpecHarvest: two valued holdings, buys around the edge of the 30-day
   window, and the harvesting report at two instants of one day *)

HarvestPool ==
    { Data("a1", "XYZ", "buy",  1, 30, 0, DateTime(2025, 1, 1, 0)),
      Data("a1", "XYZ", "buy",  1, 30, 0, DateTime(2025, 2, 15, 0)),
      Data("a1", "XYZ", "sell", 1, 20, 0, DateTime(2025, 2, 20, 0)),
      Data("a2", "ABC", "buy",  1, 50, 0, DateTime(2025, 2, 1, 0)),
      Data("a2", "ABC", "buy",  2, 50, 0, DateTime(2025, 3, 10, 0)) }

HarvestItems(asset_id) ==
    IF asset_id = "a1"
    THEN { NoItem,
           ValuedAssetItem("a1", "XYZ", 1, DateTime(2025, 1, 1, 0), 20),
           ValuedAssetItem("a1", "XYZ", 1, DateTime(2025, 1, 1, 0), 40) }
    ELSE { NoItem,
           ValuedAssetItem("a2", "ABC", 1, DateTime(2025, 2, 1, 0), 10),
           ValuedAssetItem("a2", "ABC", 1, DateTime(2025, 2, 1, 0), 100) }

\* 2025-03-03: the window starts on 2025-02-01, at midnight and just after it
HarvestNows == {DateTime(2025, 3, 3, 0), DateTime(2025, 3, 3, 1)}

InitHarvest ==
    /\ \E t \in TaxLedgers(HarvestPool),
          h1 \in HarvestItems("a1"), h2 \in HarvestItems("a2") :
          table = [t EXCEPT ![UserPK("u1")][AssetSK("a1")] = h1,
                            ![UserPK("u1")][AssetSK("a2")] = h2]
    /\ result = NoResult
    /\ prev = NoResult

NextHarvest ==
    \/ \E u \in Users, now \in HarvestNows : GetTaxLossHarvesting(u, now)
    \/ \E u \in Users, now \in HarvestNows : GetUnrealizedGains(u, now)

SpecHarvest == InitHarvest /\ [][NextHarvest]_vars

-----------------------------------------------------------------------------
(* C27: tax-loss harvesting *)

IsHarvesting(r) == r.op = "harvesting"

\* The stored buys of the symbol dated within the 30 days up to now
RecentBuys(t, pk, symbol, now) ==
    {i \in StoredIn(t, pk) :
        /\ t[pk][TransactionSK(i)].transaction_type \in {"buy", "transfer_in"}
        /\ t[pk][TransactionSK(i)].symbol = symbol
        /\ t[pk][TransactionSK(i)].transaction_date <= now
        /\ t[pk][TransactionSK(i)].transaction_date >= now - WASH_SALE_WINDOW_DAYS * TicksPerDay}

\* C27: the harvesting report lists exactly the holdings whose
\* unrealized_gain_loss is negative, largest loss first, and an entry's
\* wash_sale_risk is true if and only if a buy of the same symbol is dated
\* within the 30 days before now.
C27_Harvesting ==
    IsHarvesting(result) =>
        LET u    == result.args[1]
            now  == result.args[2]
            opps == result.value.opportunities
            held == get_unrealized_gains(table, u, now).holdings
            losing == {k \in 1 .. Len(held) : held[k].unrealized_gain_loss < 0}
        IN  /\ Len(opps) = Cardinality(losing)
            /\ \A k \in losing : \E j \in 1 .. Len(opps) :
                  /\ opps[j].symbol = held[k].symbol
                  /\ opps[j].unrealized_loss = -held[k].unrealized_gain_loss
            /\ \A j \in 1 .. Len(opps) - 1 :
                  opps[j].unrealized_loss >= opps[j + 1].unrealized_loss
            /\ \A j \in 1 .. Len(opps) :
                  opps[j].wash_sale_risk <=>
                      RecentBuys(table, UserPK(u), opps[j].symbol, now) # {}

\* Two losing holdings listed in the reverse of their stored order, one with a
\* recent buy and one whose only buys are older than the window
C27_Witness ==
    /\ IsHarvesting(result)
    /\ Len(result.value.opportunities) = 2
    /\ result.value.opportunities[1].symbol = "ABC"
    /\ result.value.opportunities[1].unrealized_loss
          > result.value.opportunities[2].unrealized_loss
    /\ result.value.opportunities[1].wash_sale_risk
          # result.value.opportunities[2].wash_sale_risk

-----------------------------------------------------------------------------
(* SpecLifecycle: one user creates, updates and deletes transactions and asks
   for the tax summary of the year *)

LifecyclePool ==
    { Data("a1", "XYZ", "buy",  2, 10, 0, DateTime(2025, 1, 1, 0)),
      Data("a1", "XYZ", "sell", 1, 30, 0, DateTime(2025, 6, 1, 0)) }

\* TransactionUpdate bodies: the fields that are not None
LifecycleUpdates ==
    { [quantity |-> 3],
      [transaction_date |-> DateTime(2026, 1, 1, 0)] }

LifecycleYears == {2025}

InitLifecycle ==
    /\ table = EmptyTable
    /\ result = NoResult
    /\ prev = NoResult

NextLifecycle ==
    \/ \E u \in Users, data \in LifecyclePool : CreateTransaction(u, data)
    \/ \E u \in Users, i \in TxIds, update_data \in LifecycleUpdates :
          UpdateTransaction(u, i, update_data)
    \/ \E u \in Users, i \in TxIds : DeleteTransaction(u, i)
    \/ \E u \in Users, y \in LifecycleYears : GetTaxYearSummary(u, y)

SpecLifecycle == InitLifecycle /\ [][NextLifecycle]_vars

-----------------------------------------------------------------------------
(* C28: the transactions TaxService reads are the ones TransactionService
   stored *)

\* The transactions stored for the user by TransactionService and dated in
\* year y
StoredInYear(t, user_id, y) ==
    { t[TransactionPK(user_id)][TransactionSK(i)] :
        i \in { j \in StoredIn(t, TransactionPK(user_id)) :
                  /\ t[TransactionPK(user_id)][TransactionSK(j)].transaction_date
                        >= DateTime(y, 1, 1, 0)
                  /\ t[TransactionPK(user_id)][TransactionSK(j)].transaction_date
                        <= DateTime(y, 12, 31, 2) } }

\* C28: after any sequence of create, update and delete, the transactions
\* get_tax_year_summary(u, Y) reads for the period are u's stored
\* transactions dated in Y.
C28_SamePartition ==
    IsTaxSummary(result) =>
        LET u == result.args[1]
            y == result.args[2]
        IN  /\ Entries(_get_transactions_for_period(table, u, DateTime(y, 1, 1, 0),
                                                    DateTime(y, 12, 31, 2)))
                  = StoredInYear(table, u, y)
            /\ result.value.transaction_count.total
                  = Cardinality(StoredInYear(table, u, y))

-----------------------------------------------------------------------------
(* C29: the totals of the summary *)

\* C29: in every tax summary total_proceeds - total_cost_basis equals
\* total_net_gain_loss, and total_net_gain_loss is the sum of gain_loss over
\* the returned capital_gains.
C29_TotalsAgree ==
    IsTaxSummary(result) =>
        LET summary == result.value.summary
        IN  /\ summary.total_proceeds - summary.total_cost_basis
                  = summary.total_net_gain_loss
            /\ summary.total_net_gain_loss
                  = SumField(result.value.capital_gains, "gain_loss")

-----------------------------------------------------------------------------
(* C30: what a wash-sale entry refers to *)

\* C30: each wash_sales entry refers to a sell of the year that has a
\* capital_gains entry with negative gain_loss, its loss_amount is the
\* absolute value of that gain_loss, and so wash_sale_disallowed is at most
\* short_term.losses + long_term.losses.
C30_WashSalesAreLosses ==
    IsTaxSummary(result) =>
        LET u       == result.args[1]
            y       == result.args[2]
            summary == result.value.summary
        IN  /\ \A w \in Entries(result.value.wash_sales) :
                  /\ w.sell_transaction_id \in SellsOfYear(table, UserPK(u), y)
                  /\ \E gain \in Entries(result.value.capital_gains) :
                        /\ gain.transaction_id = w.sell_transaction_id
                        /\ gain.gain_loss < 0
                        /\ w.loss_amount = -gain.gain_loss
            /\ summary.wash_sale_disallowed
                  <= summary.short_term.losses + summary.long_term.losses

\* A summary whose wash sale disallows the whole of the year's losses
C30_Witness ==
    /\ IsTaxSummary(result)
    /\ result.value.wash_sales # <<>>
    /\ result.value.summary.wash_sale_disallowed > 0
    /\ result.value.summary.wash_sale_disallowed
          = result.value.summary.short_term.losses + result.value.summary.long_term.losses

====
